---- MODULE Spec2Model ----
(***************************************************************************)
(* A model of the travel-recommendation agents of this repository:         *)
(*                                                                         *)
(*   - TravelRecommendationAgent (src/adk_agents/travel_agent.py): the     *)
(*     workflow engine, its TravelState machine, its four steps and the    *)
(*     callbacks it notifies;                                              *)
(*   - TravelA2AAgent (src/a2a_agents/travel_agent.py): the dispatcher     *)
(*     handle_a2a_request, its session table and its streaming generator;  *)
(*   - TravelMultiAgentOrchestrator                                        *)
(*     (src/adk_agents/multi_agent_orchestrator.py): the session store     *)
(*     create_a2a_session / _close_a2a_session around                      *)
(*     process_travel_request.                                             *)
(*                                                                         *)
(* Python dictionaries are functions whose DOMAIN is the set of keys.      *)
(* Scores and confidences are kept in thousandths (0.9 is 900).            *)
(* Korean string literals of the source are written in romanised form.     *)
(***************************************************************************)
EXTENDS Integers, Sequences, FiniteSets, TLC

VARIABLES
    \* ---- TravelRecommendationAgent ----
    travel_state,           \* self.travel_state
    wf_pc,                  \* position of run() between its awaits
    context,                \* the Context handed to run(): context.data
    results,                \* the local dict `results` of _execute_main_workflow
    state_data,             \* self.state.data (AgentState)
    state_history_len,      \* len(self.state.history)
    memory_data,            \* self.memory.data
    events,                 \* the callbacks invoked during the current run, in order
    recommendations_count,  \* self.recommendations_count
    workflow_executions,    \* self.workflow_executions
    sub_failed,             \* the sub-agents of the parallel analyzer that failed in this run
    run_outcome,            \* how the current/last run() ended: returned value or raised error
    runs_started,           \* number of run() calls made so far
    run_results,            \* what the callers of run() have been returned, per context
    clock,                  \* number of datetime.now() readings so far
    \* ---- TravelA2AAgent ----
    auth_enabled,           \* self.auth_enabled (self.authenticator is set exactly when it holds)
    active_sessions,        \* self.active_sessions
    requests_handled,       \* self.requests_handled
    a2a_call,               \* the last call of handle_a2a_request: request, handler invoked, response
    a2a_calls,              \* number of calls of handle_a2a_request so far
    streams,                \* the async generators returned by streaming calls
    uuids_issued,           \* number of uuid.uuid4() values drawn so far
    \* ---- TravelMultiAgentOrchestrator ----
    adk_available,          \* whether `from google.adk ...` succeeded (else the mock classes are used)
    orch_sessions,          \* self.active_sessions
    orch_calls,             \* the calls of process_travel_request: position, locals, outcome
    orch_calls_started,     \* number of calls of process_travel_request so far
    shared_memory,          \* self.shared_memory.data
    bus_events,             \* the events given to self.event_bus.emit, in order
    \* ---- direct calls of a tool, a step or a method ----
    tool_call,              \* the last direct call: tool, arguments, value returned
    tool_calls,             \* number of direct calls so far
    \* ---- AgentRegistry and HybridAgent (src/app/models/agent.py) ----
    agents,                 \* registry.agents
    last_success,           \* per agent_id, the last registry operation that returned True
    active_protocol,        \* hybrid_agent.active_protocol
    \* ---- calls of run() in flight together on one TravelRecommendationAgent ----
    tasks                   \* per task: position, context, local results, events, outcome

wf_vars == <<travel_state, wf_pc, context, results, state_data, state_history_len,
             memory_data, events, recommendations_count, workflow_executions,
             sub_failed, run_outcome, runs_started, run_results, clock>>

a2a_vars == <<auth_enabled, active_sessions, requests_handled, a2a_call, a2a_calls,
              streams, uuids_issued>>

\* the variables of the dispatcher other than the uuid source
a2a_own == <<auth_enabled, active_sessions, requests_handled, a2a_call, a2a_calls, streams>>

orch_vars == <<adk_available, orch_sessions, orch_calls, orch_calls_started,
               shared_memory, bus_events>>

\* the variables of the workflow engine other than the clock
wf_own == <<travel_state, wf_pc, context, results, state_data, state_history_len,
            memory_data, events, recommendations_count, workflow_executions,
            sub_failed, run_outcome, runs_started, run_results>>

tool_vars == <<tool_call, tool_calls>>

app_vars == <<agents, last_success, active_protocol>>

task_vars == <<tasks>>

vars == <<wf_vars, a2a_vars, orch_vars, tool_vars, app_vars, task_vars>>

-----------------------------------------------------------------------------
(* Bounds of the model *)

\* the number of direct calls of a tool or step
MaxToolCalls == 1

\* run() is called at most MaxRuns times on one agent
MaxRuns == 2

\* handle_a2a_request is called at most MaxRequests times on one agent
MaxRequests == 2

\* process_travel_request is called at most MaxCalls times on one orchestrator
MaxCalls == 2

\* Memory.store is called at most MaxStores times on one Memory
MaxStores == 4

-----------------------------------------------------------------------------
(* Python dictionaries *)

EmptyDict == <<>>

\* dict.get(key, default)
Get(d, key, default) == IF key \in DOMAIN d THEN d[key] ELSE default

\* d[key] = value
Put(d, key, value) == [k \in (DOMAIN d) \cup {key} |-> IF k = key THEN value ELSE d[k]]

\* the absent value None
None == [type |-> "NoneType"]

-----------------------------------------------------------------------------
(* TravelState *)

TravelStateChain ==
    << "initialized", "analyzing_preferences", "searching_destinations",
       "matching_preferences", "optimizing_budget", "generating_itinerary",
       "finalizing_recommendations", "completed" >>

TravelState == {TravelStateChain[i] : i \in 1..Len(TravelStateChain)} \cup {"error"}

\* position of a state in the declaration order of the enum
Rank(s) == IF s = "error" THEN Len(TravelStateChain) + 1
           ELSE CHOOSE i \in 1..Len(TravelStateChain) : TravelStateChain[i] = s

-----------------------------------------------------------------------------
(* Inputs of run(): the Context data *)

\* A text is represented by what the code reads from it: the keywords it
\* contains as substrings, the number N of a "N manwon" pattern and the number
\* M of a "N bak M il" pattern (-1: the pattern does not occur).
Text(words, manwon, days) ==
    [type |-> "str", words |-> words, manwon |-> manwon, days |-> days]

EmptyText == Text({}, -1, -1)

\* "jayeon jungsim ... 100 manwon ... 3 bak 4 il" (the text of test_adk_travel_agent)
TextNatureFamily == Text({"jayeon", "gajok"}, 100, 4)

\* "matjip ... gogeup ... munhwa"
TextFoodLuxuryCulture == Text({"matjip", "gogeup", "munhwa"}, -1, -1)

UserInputs == {TextNatureFamily, TextFoodLuxuryCulture, None}

SessionIds == {"adk_test_001"}

Budgets == {800000}

\* every Context the model hands to run(): each key may be absent
Contexts ==
    { [k \in keys |-> CASE k = "session_id" -> sid
                        [] k = "user_input" -> text
                        [] k = "budget" -> budget] :
        keys \in SUBSET {"session_id", "user_input", "budget"},
        sid \in SessionIds, text \in UserInputs, budget \in Budgets }

-----------------------------------------------------------------------------
(* Memory *)

\* a faulty store: the entry just appended is the one removed from a full memory
MemoryStore_EvictsNewest(data, enabled, max_size, entry) ==
    IF enabled
    THEN LET appended == Append(data, entry)
         IN IF Len(appended) > max_size THEN SubSeq(appended, 1, Len(appended) - 1)
            ELSE appended
    ELSE data

\* Memory.store
MemoryStore(data, enabled, max_size, entry) ==
    IF enabled
    THEN LET appended == Append(data, entry)
         IN IF Len(appended) > max_size THEN Tail(appended) ELSE appended
    ELSE data

\* Memory(enabled=True, max_size=1000) of TravelRecommendationAgent.__init__
MemoryMaxSize == 1000

-----------------------------------------------------------------------------
(* Tools and utilities of TravelRecommendationAgent *)

IsStr(x) == x.type = "str"

\* `word in text`
Contains(text, word) == word \in text.words

\* _extract_budget
_extract_budget(text) == IF text.manwon >= 0 THEN text.manwon * 10000 ELSE 1000000

\* _extract_duration
_extract_duration(text) == IF text.days >= 0 THEN text.days ELSE 3

\* _analyze_user_preferences (defined on a str; anything else raises TypeError)
_analyze_user_preferences(user_input) ==
    [ nature |-> Contains(user_input, "jayeon") \/ Contains(user_input, "healing"),
      culture |-> Contains(user_input, "munhwa") \/ Contains(user_input, "yeoksa"),
      food |-> Contains(user_input, "matjip") \/ Contains(user_input, "eumsik"),
      budget_conscious |-> Contains(user_input, "jeoryeom") \/ Contains(user_input, "jeoryak"),
      luxury |-> Contains(user_input, "luxury") \/ Contains(user_input, "gogeup"),
      family |-> Contains(user_input, "gajok"),
      solo |-> Contains(user_input, "honja") \/ Contains(user_input, "solo"),
      extracted_budget |-> _extract_budget(user_input),
      extracted_duration |-> _extract_duration(user_input) ]

\* _build_search_query: the query parts, joined by " "
_build_search_query(preferences) ==
    LET query_parts == (IF Get(preferences, "nature", FALSE)
                        THEN <<"jayeon gyeonggwan">> ELSE <<>>)
                       \o (IF Get(preferences, "culture", FALSE)
                           THEN <<"munhwa gwangwang">> ELSE <<>>)
    IN IF query_parts /= <<>> THEN query_parts ELSE <<"ingi yeohaengji">>

\* _process_search_results: the mock destination data (popularity in tenths)
_process_search_results ==
    << [name |-> "Jeju", category |-> "nature", popularity |-> 95],
       [name |-> "Busan", category |-> "city", popularity |-> 87],
       [name |-> "Gyeongju", category |-> "culture", popularity |-> 82],
       [name |-> "Gangneung", category |-> "nature", popularity |-> 80] >>

\* ParallelAgent.run: the three mock results, in the order of the sub-agents
ParallelAgentRun(analysis_context) ==
    << [ scores |-> <<900, 800, 700>>,
         matching_factors |-> <<"jayeon seonhodo ilchi", "nopeun ingido">> ],
       [ total_budget |-> Get(analysis_context, "budget", 1000000),
         allocation |-> [ accommodation |-> 350000, transportation |-> 250000,
                          food |-> 250000, activities |-> 100000, shopping |-> 50000 ] ],
       [ itineraries |->
           << [day_1 |-> "jayeon tambang", day_2 |-> "munhwa cheheom", day_3 |-> "hyusik"],
              [day_1 |-> "dosi tour", day_2 |-> "matjip tambang", day_3 |-> "shopping"] >> ] >>

\* the sub-agents of self.parallel_analyzer, in order
ParallelSubAgents == <<"preference_matcher", "budget_analyzer", "itinerary_planner">>

\* the keys of integrated_analysis, in the order of the sub-agents
AnalysisKeys == <<"preference_matching", "budget_optimization", "itinerary_planning">>

\* a faulty integrated_analysis: the itinerary of the third sub-agent is lost
IntegratedAnalysis_NoItinerary(parallel_results) ==
    [ preference_matching |-> parallel_results[1],
      budget_optimization |-> parallel_results[2] ]

\* integrated_analysis of _step_parallel_analysis
IntegratedAnalysis(parallel_results) ==
    [ preference_matching |-> parallel_results[1],
      budget_optimization |-> parallel_results[2],
      itinerary_planning |-> parallel_results[3] ]

Min(a, b) == IF a < b THEN a ELSE b

\* a faulty slice: every destination is kept
TopDestinations_All(destinations) == destinations

\* destinations[:3]
TopDestinations(destinations) == SubSeq(destinations, 1, Min(3, Len(destinations)))

\* a faulty recommendation: the confidence is computed from the position among
\* all recommendations the agent has made, not among those of this run
Recommendation_CountsAll(ctx, workflow_results, i, now) ==
    LET destinations == Get(workflow_results, "destinations", <<>>)
        analysis == Get(workflow_results, "analysis", EmptyDict)
        preference_matching == Get(analysis, "preference_matching", EmptyDict)
        budget_optimization == Get(analysis, "budget_optimization", EmptyDict)
        itinerary_planning == Get(analysis, "itinerary_planning", EmptyDict)
        destination == destinations[i + 1]
        scores == Get(preference_matching, "scores", <<800, 700, 600>>)
        match_score == IF i < Len(scores) THEN scores[i + 1] ELSE 800
        itineraries == Get(itinerary_planning, "itineraries", <<EmptyDict>>)
        itinerary == IF i < Len(itineraries) THEN itineraries[i + 1] ELSE EmptyDict
    IN [ id |-> <<"rec", Get(ctx, "session_id", "unknown"), i + 1>>,
         destination |-> Get(destination, "name", "al su eomneun mokjeokji"),
         title |-> <<Get(destination, "name", "yeohaengji"), "yeohaeng">>,
         description |-> Get(destination, "description", "areumdaun yeohaengji"),
         match_score |-> match_score,
         budget_breakdown |-> budget_optimization,
         itinerary |-> itinerary,
         generated_at |-> now,
         confidence |-> 850 - ((recommendations_count + i) * 50) ]

\* a faulty recommendation: every position is given the first score
Recommendation_FirstScore(ctx, workflow_results, i, now) ==
    LET destinations == Get(workflow_results, "destinations", <<>>)
        analysis == Get(workflow_results, "analysis", EmptyDict)
        preference_matching == Get(analysis, "preference_matching", EmptyDict)
        budget_optimization == Get(analysis, "budget_optimization", EmptyDict)
        itinerary_planning == Get(analysis, "itinerary_planning", EmptyDict)
        destination == destinations[i + 1]
        scores == Get(preference_matching, "scores", <<800, 700, 600>>)
        match_score == IF i < Len(scores) THEN scores[1] ELSE 800
        itineraries == Get(itinerary_planning, "itineraries", <<EmptyDict>>)
        itinerary == IF i < Len(itineraries) THEN itineraries[i + 1] ELSE EmptyDict
    IN [ id |-> <<"rec", Get(ctx, "session_id", "unknown"), i + 1>>,
         destination |-> Get(destination, "name", "al su eomneun mokjeokji"),
         title |-> <<Get(destination, "name", "yeohaengji"), "yeohaeng">>,
         description |-> Get(destination, "description", "areumdaun yeohaengji"),
         match_score |-> match_score,
         budget_breakdown |-> budget_optimization,
         itinerary |-> itinerary,
         generated_at |-> now,
         confidence |-> 850 - (i * 50) ]

\* the recommendation built for destinations[i] (i is 0-based, as in the source);
\* `now` is the reading of datetime.now() for generated_at
Recommendation(ctx, workflow_results, i, now) ==
    LET destinations == Get(workflow_results, "destinations", <<>>)
        analysis == Get(workflow_results, "analysis", EmptyDict)
        preference_matching == Get(analysis, "preference_matching", EmptyDict)
        budget_optimization == Get(analysis, "budget_optimization", EmptyDict)
        itinerary_planning == Get(analysis, "itinerary_planning", EmptyDict)
        destination == destinations[i + 1]
        scores == Get(preference_matching, "scores", <<800, 700, 600>>)
        match_score == IF i < Len(scores) THEN scores[i + 1] ELSE 800
        itineraries == Get(itinerary_planning, "itineraries", <<EmptyDict>>)
        itinerary == IF i < Len(itineraries) THEN itineraries[i + 1] ELSE EmptyDict
    IN [ id |-> <<"rec", Get(ctx, "session_id", "unknown"), i + 1>>,
         destination |-> Get(destination, "name", "al su eomneun mokjeokji"),
         title |-> <<Get(destination, "name", "yeohaengji"), "yeohaeng">>,
         description |-> Get(destination, "description", "areumdaun yeohaengji"),
         match_score |-> match_score,
         budget_breakdown |-> budget_optimization,
         itinerary |-> itinerary,
         generated_at |-> now,
         confidence |-> 850 - (i * 50) ]

\* the list built by the loop of _step_generate_recommendations; the i-th
\* recommendation reads the clock after the ones before it
Recommendations(ctx, workflow_results, now) ==
    LET top == TopDestinations(Get(workflow_results, "destinations", <<>>))
    IN [ j \in 1..Len(top) |-> Recommendation(ctx, workflow_results, j - 1, now + j) ]

Abs(n) == IF n < 0 THEN -n ELSE n

\* int(budget * v) for the float v that `hundredths` percent stands for. The
\* product is a float: where budget * hundredths / 100 is a whole number and
\* the float v lies below its decimal value (0.35 and 0.35 + 0.10 do, 0.25 is
\* exact, 0.3 rounds back, 0.1 and 0.05 lie above), the product may round to
\* just under that number and int() then gives one less: float_error (0 or 1)
\* is that loss. int() truncates toward zero.
IntOfProduct(budget, hundredths, float_error) ==
    LET scaled == Abs(budget) * hundredths
        magnitude == IF scaled % 100 = 0 /\ scaled > 0
                     THEN (scaled \div 100) - float_error
                     ELSE scaled \div 100
    IN IF budget < 0 THEN -magnitude ELSE magnitude

\* a faulty base_allocation: the dict outlives the call, so the adjustments of
\* the call before are still in it
BaseAllocation_Accumulating(preferences) ==
    LET before == IF tool_call.tool = "_optimize_travel_budget"
                  THEN tool_call.args.preferences ELSE <<>>
        food == (IF Get(preferences, "food", FALSE) THEN 1 ELSE 0)
                + (IF Get(before, "food", FALSE) THEN 1 ELSE 0)
        luxury == (IF Get(preferences, "luxury", FALSE) THEN 1 ELSE 0)
                  + (IF Get(before, "luxury", FALSE) THEN 1 ELSE 0)
    IN [ accommodation |-> 35 + 10 * luxury,
         transportation |-> 25,
         food |-> 25 + 5 * food,
         activities |-> 10 - 10 * luxury,
         shopping |-> 5 - 5 * food ]

\* base_allocation of _optimize_travel_budget after the adjustments, in hundredths
BaseAllocation(preferences) ==
    LET food == Get(preferences, "food", FALSE)
        luxury == Get(preferences, "luxury", FALSE)
    IN [ accommodation |-> 35 + (IF luxury THEN 10 ELSE 0),
         transportation |-> 25,
         food |-> 25 + (IF food THEN 5 ELSE 0),
         activities |-> 10 - (IF luxury THEN 10 ELSE 0),
         shopping |-> 5 - (IF food THEN 5 ELSE 0) ]

\* _optimize_travel_budget; float_error is the rounding loss of the product
\* for accommodation, the one category whose float lies below its decimal value
_optimize_travel_budget(budget, preferences, float_error) ==
    LET base_allocation == BaseAllocation(preferences)
    IN [ total_budget |-> budget,
         allocation |->
            [ k \in DOMAIN base_allocation |->
                IntOfProduct(budget, base_allocation[k],
                             IF k = "accommodation" THEN float_error ELSE 0) ],
         optimization_strategy |-> "preference_based" ]

\* _calculate_match_score, in thousandths; popularity is in tenths, so
\* popularity / 10.0 * 0.2 is 2 thousandths per tenth
_calculate_match_score(destination, preferences) ==
    LET base == 500
        nature == IF Get(preferences, "nature", FALSE) /\ destination["category"] = "nature"
                  THEN 300 ELSE 0
        culture == IF Get(preferences, "culture", FALSE) /\ destination["category"] = "culture"
                   THEN 300 ELSE 0
        score == base + nature + culture + Get(destination, "popularity", 50) * 2
    IN Min(score, 1000)

\* _get_matching_factors
_get_matching_factors(destination, preferences) ==
    (IF Get(preferences, "nature", FALSE) /\ destination["category"] = "nature"
     THEN <<"jayeon seonhodo ilchi">> ELSE <<>>)
    \o (IF Get(destination, "popularity", 0) > 80 THEN <<"nopeun ingido">> ELSE <<>>)

\* matches.sort(key=match_score, reverse=True): the sort is stable, so a match
\* is placed behind every match of a score not lower than its own that
\* precedes it in the list
RECURSIVE SortByScore(_)
SortByScore(matches) ==
    IF matches = <<>> THEN <<>>
    ELSE LET n == Len(matches)
             sorted == SortByScore(SubSeq(matches, 1, n - 1))
             k == Cardinality({i \in 1..(n - 1) :
                                  sorted[i].match_score >= matches[n].match_score})
         IN SubSeq(sorted, 1, k) \o <<matches[n]>> \o SubSeq(sorted, k + 1, n - 1)

\* _match_destinations
_match_destinations(destinations, preferences) ==
    LET matches == SortByScore(
            [ i \in 1..Len(destinations) |->
                [ destination |-> destinations[i],
                  match_score |-> _calculate_match_score(destinations[i], preferences),
                  matching_factors |-> _get_matching_factors(destinations[i], preferences) ] ])
    IN [ matches |-> matches,
         total_analyzed |-> Len(destinations),
         scores |-> [i \in 1..Len(matches) |-> matches[i].match_score] ]

-----------------------------------------------------------------------------
(* TravelRecommendationAgent: state management and events *)

Event(name, data) == [name |-> name, data |-> data]

\* the callbacks registered by _setup_callbacks
Callbacks == {"on_state_change", "on_workflow_start", "on_workflow_complete",
              "on_tool_executed", "on_error"}

\* _emit_event: the callback of a registered event is invoked with the event
Emit(log, name, data) == IF name \in Callbacks THEN Append(log, Event(name, data)) ELSE log

\* _update_state: the event emitted for the change old_state -> new_state
\* (its "context" entry is context.data, which run() never changes)
StateChange(old_state, new_state) == [old_state |-> old_state, new_state |-> new_state]

\* AgentState.update
StateUpdate(key, value) ==
    /\ state_data' = Put(state_data, key, value)
    /\ state_history_len' = state_history_len + 1

\* the outcome of a run
Pending == [kind |-> "pending"]
Returned(value) == [kind |-> "returned", value |-> value]
Raised(error) == [kind |-> "raised", error |-> error]

\* a faulty choice of states: recommendation assembly re-enters the first phase
PhaseState_Backwards(step) ==
    CASE step = "analyze_preferences" -> "analyzing_preferences"
      [] step = "search_destinations" -> "searching_destinations"
      [] step = "parallel_analysis" -> "matching_preferences"
      [] step = "generate_recommendations" -> "analyzing_preferences"

\* the state _execute_main_workflow enters before each step
PhaseState(step) ==
    CASE step = "analyze_preferences" -> "analyzing_preferences"
      [] step = "search_destinations" -> "searching_destinations"
      [] step = "parallel_analysis" -> "matching_preferences"
      [] step = "generate_recommendations" -> "finalizing_recommendations"

\* the steps of _execute_main_workflow, in the order of the code
WorkflowSteps == <<"analyze_preferences", "search_destinations",
                   "parallel_analysis", "generate_recommendations">>

\* a faulty choice of keys: the last step writes "recommendation"
ResultKey_Misnamed(step) ==
    CASE step = "analyze_preferences" -> "preferences"
      [] step = "search_destinations" -> "destinations"
      [] step = "parallel_analysis" -> "analysis"
      [] step = "generate_recommendations" -> "recommendation"

\* a faulty choice of keys: the last step writes over "preferences"
ResultKey_OverPreferences(step) ==
    CASE step = "analyze_preferences" -> "preferences"
      [] step = "search_destinations" -> "destinations"
      [] step = "parallel_analysis" -> "analysis"
      [] step = "generate_recommendations" -> "preferences"

\* the key of `results` a step writes
ResultKey(step) ==
    CASE step = "analyze_preferences" -> "preferences"
      [] step = "search_destinations" -> "destinations"
      [] step = "parallel_analysis" -> "analysis"
      [] step = "generate_recommendations" -> "recommendations"

\* wf_pc is the position of run(): "idle" (no call yet), "before" step k (the
\* state of the k-th step is not yet entered), "in" step k (its state is entered
\* and the step is awaited), "failed" (the exception `error` is in flight inside
\* the try block of run), "completing" (_execute_main_workflow has returned)
\* or "ended".
At(at, step, error) == [at |-> at, step |-> step, error |-> error]
Idle == At("idle", 0, "")
Ended == At("ended", 0, "")
Completing == At("completing", 0, "")
Before(k) == At("before", k, "")
In(k) == At("in", k, "")
Failed(e) == At("failed", 0, e)

-----------------------------------------------------------------------------
(* TravelRecommendationAgent.run *)

\* run(context), up to the call of _execute_main_workflow:
\* _update_state(INITIALIZED) and the on_workflow_start event, whose callback
\* _on_workflow_start counts the execution
Run(ctx) ==
    /\ wf_pc \in {Idle, Ended}
    /\ runs_started < MaxRuns
    /\ runs_started' = runs_started + 1
    /\ context' = ctx
    /\ travel_state' = "initialized"
    /\ events' = Emit(Emit(<<>>, "on_state_change", StateChange(travel_state, "initialized")),
                      "on_workflow_start", [workflow |-> "travel_recommendation"])
    /\ workflow_executions' = workflow_executions + 1
    /\ results' = EmptyDict
    /\ sub_failed' = {}
    /\ run_outcome' = Pending
    /\ wf_pc' = Before(1)
    /\ UNCHANGED <<state_data, state_history_len, memory_data, recommendations_count,
                   run_results, clock>>

\* _execute_main_workflow: _update_state(<the state of step k>) before step k
EnterPhase(k) ==
    /\ wf_pc = Before(k)
    /\ travel_state' = PhaseState(WorkflowSteps[k])
    /\ events' = Emit(events, "on_state_change",
                      StateChange(travel_state, PhaseState(WorkflowSteps[k])))
    /\ wf_pc' = In(k)
    /\ UNCHANGED <<context, results, state_data, state_history_len, memory_data,
                   recommendations_count, workflow_executions, sub_failed, run_outcome,
                   runs_started, run_results, clock>>

\* a step of the workflow raises: the exception leaves _execute_main_workflow
\* and nothing else is changed
StepRaises(error) ==
    /\ wf_pc' = Failed(error)
    /\ UNCHANGED <<travel_state, context, results, state_data, state_history_len,
                   memory_data, events, recommendations_count, workflow_executions,
                   run_outcome, runs_started, run_results, clock>>

\* where _execute_main_workflow continues after step k
AfterStep(k) == IF k < Len(WorkflowSteps) THEN Before(k + 1) ELSE Completing

\* step k returned `value`: self.state.update(key, value), then
\* results[key] = value in _execute_main_workflow
StepReturns(k, value) ==
    /\ StateUpdate(ResultKey(WorkflowSteps[k]), value)
    /\ results' = Put(results, ResultKey(WorkflowSteps[k]), value)
    /\ wf_pc' = AfterStep(k)
    /\ UNCHANGED <<travel_state, context, workflow_executions, run_outcome, runs_started, run_results>>

\* _step_analyze_preferences
StepAnalyzePreferences ==
    /\ wf_pc = In(1)
    /\ UNCHANGED sub_failed
    /\ LET user_input == Get(context, "user_input", EmptyText)
       IN IF ~IsStr(user_input)
          THEN StepRaises("TypeError")
          ELSE LET preferences == _analyze_user_preferences(user_input)
               IN /\ StepReturns(1, preferences)
                  /\ memory_data' = MemoryStore(memory_data, TRUE, MemoryMaxSize,
                                        [ step |-> "analyze_preferences",
                                          input |-> user_input,
                                          output |-> preferences,
                                          timestamp |-> clock + 1 ])
                  /\ clock' = clock + 1
                  /\ events' = Emit(events, "on_tool_executed",
                                    [tool |-> "preference_analyzer", result |-> preferences])
                  /\ UNCHANGED recommendations_count

\* _step_search_destinations; the awaited search tool either answers or raises
StepSearchDestinations ==
    /\ wf_pc = In(2)
    /\ UNCHANGED sub_failed
    /\ \E search_fails \in BOOLEAN :
         IF search_fails
         THEN StepRaises("destination_searcher")
         ELSE LET search_query == _build_search_query(results["preferences"])
                  destinations == _process_search_results
              IN /\ StepReturns(2, destinations)
                 /\ events' = Emit(events, "on_tool_executed",
                                   [ tool |-> "destination_searcher",
                                     query |-> search_query,
                                     results_count |-> Len(destinations) ])
                 /\ UNCHANGED <<memory_data, recommendations_count, clock>>

\* what `await self.parallel_analyzer.run(analysis_context)` gives when the
\* sub-agents in `failed` fail: the results when none does, otherwise the
\* exception of the first failed sub-agent, named after it (the call is not
\* guarded)
ParallelOutcome(analysis_context, failed) ==
    IF failed = {}
    THEN Returned(ParallelAgentRun(analysis_context))
    ELSE Raised(ParallelSubAgents[CHOOSE i \in 1..3 :
                    /\ ParallelSubAgents[i] \in failed
                    /\ \A j \in 1..(i - 1) : ParallelSubAgents[j] \notin failed])

\* _step_parallel_analysis
StepParallelAnalysis ==
    /\ wf_pc = In(3)
    /\ \E failed \in SUBSET {ParallelSubAgents[i] : i \in 1..3} :
         LET analysis_context ==
                 [ destinations |-> results["destinations"],
                   preferences |-> results["preferences"],
                   budget |-> Get(context, "budget", 1000000) ]
             outcome == ParallelOutcome(analysis_context, failed)
         IN /\ sub_failed' = failed
            /\ IF outcome.kind = "raised"
               THEN StepRaises(outcome.error)
               ELSE /\ StepReturns(3, IntegratedAnalysis(outcome.value))
                    /\ UNCHANGED <<memory_data, events, recommendations_count, clock>>

\* _step_generate_recommendations
StepGenerateRecommendations ==
    /\ wf_pc = In(4)
    /\ LET recommendations == Recommendations(context, results, clock)
       IN /\ StepReturns(4, recommendations)
          /\ recommendations_count' = recommendations_count + Len(recommendations)
          /\ clock' = clock + Len(recommendations)
    /\ UNCHANGED <<memory_data, events, sub_failed>>

\* a recommendation as the caller compares it with the one of another run:
\* every field but the time it was generated at
Comparable(recommendation) ==
    [k \in (DOMAIN recommendation) \ {"generated_at"} |-> recommendation[k]]

\* what a caller keeps of a run that returned: the context it passed and the
\* recommendations of the result
RunResult(ctx, workflow_result) ==
    LET recommendations == Get(workflow_result, "recommendations", <<>>)
    IN [ context |-> ctx,
         recommendations |->
            [i \in 1..Len(recommendations) |-> Comparable(recommendations[i])] ]

\* a faulty end of run(): _update_state(COMPLETED) is left out
Complete_NoStateUpdate ==
    /\ wf_pc = Completing
    /\ events' = Emit(events, "on_workflow_complete",
                      [ result |-> results,
                        recommendations_count |-> Len(Get(results, "recommendations", <<>>)) ])
    /\ run_outcome' = Returned(results)
    /\ wf_pc' = Ended
    /\ run_results' = run_results \cup {RunResult(context, results)}
    /\ UNCHANGED <<travel_state, context, results, state_data, state_history_len,
                   memory_data, recommendations_count, workflow_executions, sub_failed,
                   runs_started, clock>>

\* run(), after _execute_main_workflow returned: _update_state(COMPLETED), the
\* on_workflow_complete event and `return workflow_result`
Complete ==
    /\ wf_pc = Completing
    /\ travel_state' = "completed"
    /\ events' = Emit(Emit(events, "on_state_change", StateChange(travel_state, "completed")),
                      "on_workflow_complete",
                      [ result |-> results,
                        recommendations_count |-> Len(Get(results, "recommendations", <<>>)) ])
    /\ run_outcome' = Returned(results)
    /\ wf_pc' = Ended
    /\ run_results' = run_results \cup {RunResult(context, results)}
    /\ UNCHANGED <<context, results, state_data, state_history_len, memory_data,
                   recommendations_count, workflow_executions, sub_failed,
                   runs_started, clock>>

\* a faulty except block: _update_state(ERROR) is left out
HandleException_NoStateUpdate ==
    /\ wf_pc.at = "failed"
    /\ events' = Emit(events, "on_error", [error |-> wf_pc.error])
    /\ run_outcome' = Raised(wf_pc.error)
    /\ wf_pc' = Ended
    /\ UNCHANGED <<travel_state, context, results, state_data, state_history_len,
                   memory_data, recommendations_count, workflow_executions, sub_failed,
                   runs_started, run_results, clock>>

\* run(), `except Exception as e`: _update_state(ERROR), the on_error event
\* with str(e), and `raise`
HandleException ==
    /\ wf_pc.at = "failed"
    /\ travel_state' = "error"
    /\ events' = Emit(Emit(events, "on_state_change", StateChange(travel_state, "error")),
                      "on_error", [error |-> wf_pc.error])
    /\ run_outcome' = Raised(wf_pc.error)
    /\ wf_pc' = Ended
    /\ UNCHANGED <<context, results, state_data, state_history_len, memory_data,
                   recommendations_count, workflow_executions, sub_failed,
                   runs_started, run_results, clock>>

\* _execute_main_workflow: _update_state(<the state of step k>) where the
\* on_state_change callback raises: self.travel_state is assigned before the
\* event is emitted, and _emit_event awaits the callback unguarded, so the
\* exception of the callback leaves _execute_main_workflow
EnterPhaseCallbackFails(k) ==
    /\ wf_pc = Before(k)
    /\ travel_state' = PhaseState(WorkflowSteps[k])
    /\ events' = Emit(events, "on_state_change",
                      StateChange(travel_state, PhaseState(WorkflowSteps[k])))
    /\ wf_pc' = Failed("on_state_change")
    /\ UNCHANGED <<context, results, state_data, state_history_len, memory_data,
                   recommendations_count, workflow_executions, sub_failed, run_outcome,
                   runs_started, run_results, clock>>

\* run(), after _execute_main_workflow returned, where the on_workflow_complete
\* callback raises: _update_state(COMPLETED) is done, the exception of the
\* callback is raised inside the try block and `return workflow_result` is
\* not reached
CompleteCallbackFails ==
    /\ wf_pc = Completing
    /\ travel_state' = "completed"
    /\ events' = Emit(Emit(events, "on_state_change", StateChange(travel_state, "completed")),
                      "on_workflow_complete",
                      [ result |-> results,
                        recommendations_count |-> Len(Get(results, "recommendations", <<>>)) ])
    /\ wf_pc' = Failed("on_workflow_complete")
    /\ UNCHANGED <<context, results, state_data, state_history_len, memory_data,
                   recommendations_count, workflow_executions, sub_failed, run_outcome,
                   runs_started, run_results, clock>>

-----------------------------------------------------------------------------
(* Two calls of run() in flight together on one agent *)

\* the tasks that call agent.run(context) on the same agent, e.g. under
\* asyncio.gather
TaskIds == {"t1", "t2"}

IdleTask == [pc |-> Idle, context |-> EmptyDict, results |-> EmptyDict,
             events |-> <<>>, outcome |-> Pending]

\* the contexts of the tasks
TaskContexts ==
    { [session_id |-> "adk_test_001", user_input |-> TextNatureFamily, budget |-> 800000],
      [user_input |-> TextFoodLuxuryCulture] }

\* COMPLETED is assigned and the callbacks of run() are awaited
Notifying == At("notifying", 0, "")

InitTasks == tasks = [t \in TaskIds |-> IdleTask]

\* A coroutine runs until an awaited call suspends. Here the callback of
\* on_state_change is one that suspends (it awaits I/O), so that a task gives
\* way to the other after each assignment of self.travel_state, inside
\* _update_state.

\* run(context) up to the callback of _update_state(INITIALIZED)
TaskRun(t, ctx) ==
    /\ tasks[t].pc = Idle
    /\ travel_state' = "initialized"
    /\ tasks' = [tasks EXCEPT ![t] =
                    [ pc |-> Before(1), context |-> ctx, results |-> EmptyDict,
                      events |-> Emit(<<>>, "on_state_change",
                                      StateChange(travel_state, "initialized")),
                      outcome |-> Pending ]]
    /\ UNCHANGED <<wf_pc, context, results, state_data, state_history_len, memory_data,
                   events, recommendations_count, workflow_executions, sub_failed,
                   run_outcome, runs_started, run_results, clock>>

\* the on_workflow_start event, whose callback counts the execution, and
\* _update_state(ANALYZING_PREFERENCES) up to its callback
TaskEnterWorkflow(t) ==
    /\ tasks[t].pc = Before(1)
    /\ workflow_executions' = workflow_executions + 1
    /\ travel_state' = PhaseState(WorkflowSteps[1])
    /\ tasks' = [tasks EXCEPT
          ![t].pc = In(1),
          ![t].events =
              Emit(Emit(@, "on_workflow_start", [workflow |-> "travel_recommendation"]),
                   "on_state_change",
                   StateChange(travel_state, PhaseState(WorkflowSteps[1])))]
    /\ UNCHANGED <<wf_pc, context, results, state_data, state_history_len, memory_data,
                   events, recommendations_count, sub_failed,
                   run_outcome, runs_started, run_results, clock>>

\* from the callback of the state of step k: step k itself, results[key] =
\* value, and the next _update_state up to its callback: the state of step
\* k + 1 or, after the last step, back in run(), COMPLETED
TaskStep(t) ==
    /\ tasks[t].pc.at = "in"
    /\ LET k == tasks[t].pc.step
           ctx == tasks[t].context
           res == tasks[t].results
           user_input == Get(ctx, "user_input", EmptyText)
           value ==
              CASE k = 1 -> _analyze_user_preferences(user_input)
                [] k = 2 -> _process_search_results
                [] k = 3 -> IntegratedAnalysis(ParallelAgentRun(
                                [ destinations |-> res["destinations"],
                                  preferences |-> res["preferences"],
                                  budget |-> Get(ctx, "budget", 1000000) ]))
                [] k = 4 -> Recommendations(ctx, res, clock)
           tool_events ==
              CASE k = 1 -> Emit(tasks[t].events, "on_tool_executed",
                                 [tool |-> "preference_analyzer", result |-> value])
                [] k = 2 -> Emit(tasks[t].events, "on_tool_executed",
                                 [ tool |-> "destination_searcher",
                                   query |-> _build_search_query(res["preferences"]),
                                   results_count |-> Len(value) ])
                [] OTHER -> tasks[t].events
           next_state == IF k < Len(WorkflowSteps) THEN PhaseState(WorkflowSteps[k + 1])
                         ELSE "completed"
       IN /\ StateUpdate(ResultKey(WorkflowSteps[k]), value)
          /\ memory_data' = IF k = 1
                            THEN MemoryStore(memory_data, TRUE, MemoryMaxSize,
                                     [ step |-> "analyze_preferences", input |-> user_input,
                                       output |-> value, timestamp |-> clock + 1 ])
                            ELSE memory_data
          /\ clock' = clock + (IF k = 1 THEN 1 ELSE IF k = 4 THEN Len(value) ELSE 0)
          /\ recommendations_count' =
                 recommendations_count + (IF k = 4 THEN Len(value) ELSE 0)
          /\ travel_state' = next_state
          /\ tasks' = [tasks EXCEPT
                ![t].results = Put(res, ResultKey(WorkflowSteps[k]), value),
                ![t].events = Emit(tool_events, "on_state_change",
                                   StateChange(travel_state, next_state)),
                ![t].pc = IF k < Len(WorkflowSteps) THEN In(k + 1) ELSE Notifying]
    /\ UNCHANGED <<wf_pc, context, results, events, workflow_executions, sub_failed,
                   run_outcome, runs_started, run_results>>

\* the search tool of step 2 raises: `except Exception` of run() assigns
\* ERROR, emits on_error and re-raises
TaskStepRaises(t) ==
    /\ tasks[t].pc = In(2)
    /\ travel_state' = "error"
    /\ tasks' = [tasks EXCEPT
          ![t].pc = Ended,
          ![t].events = Emit(Emit(@, "on_state_change", StateChange(travel_state, "error")),
                             "on_error", [error |-> "destination_searcher"]),
          ![t].outcome = Raised("destination_searcher")]
    /\ UNCHANGED <<wf_pc, context, results, state_data, state_history_len, memory_data,
                   events, recommendations_count, workflow_executions, sub_failed,
                   run_outcome, runs_started, run_results, clock>>

\* from the callback of _update_state(COMPLETED): the on_workflow_complete
\* event and `return workflow_result`
TaskReturn(t) ==
    /\ tasks[t].pc = Notifying
    /\ tasks' = [tasks EXCEPT
          ![t].pc = Ended,
          ![t].events =
              Emit(@, "on_workflow_complete",
                   [ result |-> tasks[t].results,
                     recommendations_count |->
                         Len(Get(tasks[t].results, "recommendations", <<>>)) ]),
          ![t].outcome = Returned(tasks[t].results)]
    /\ UNCHANGED wf_vars

\* the task awaiting run() is cancelled (or its timeout expires) while a step
\* awaits a collaborator: asyncio.CancelledError is thrown at that await. It is
\* a BaseException, which `except Exception` of run() does not catch: run()
\* ends with it and nothing else is changed. The first three steps await a
\* collaborator (the analyzer and the memory, the search tool, the parallel
\* agent); _step_generate_recommendations awaits nothing.
CancelRun ==
    /\ wf_pc.at = "in"
    /\ wf_pc.step \in 1..3
    /\ wf_pc' = Ended
    /\ run_outcome' = Raised("CancelledError")
    /\ UNCHANGED <<travel_state, context, results, state_data, state_history_len,
                   memory_data, events, recommendations_count, workflow_executions,
                   sub_failed, runs_started, run_results, clock>>

-----------------------------------------------------------------------------
(* TravelA2AAgent: requests and responses *)

\* str(None), which is what an absent session id formats to
NoneStr == "None"

\* str(uuid.uuid4()) for the n-th value drawn: fresh, and no client-chosen id
Uuid4(n) == <<"uuid4", n>>

\* a session id chosen by the client
ClientSessionId == <<"a2a_test_001", 0>>

\* the session id chosen by another client
OtherSessionId == <<"a2a_test_002", 0>>

\* request.session_id when the client gives none
NoSessionId == <<NoneStr, 0>>

\* a string is kept as <<prefix, rest>> where a prefix test reads it
MockToken == <<"mock_token_", "uuid">>
ForgedToken == <<"forged_", "token">>

\* request.auth_token: None, or an AuthToken holding a token string
NoAuthToken == [present |-> FALSE, token |-> <<"", "">>]
AuthToken(token) == [present |-> TRUE, token |-> token]

\* A2AAuthenticator.verify_token: token.startswith("mock_token_")
verify_token(token) == token[1] = "mock_token_"

\* AgentSkill.id -> AgentSkill.authentication_required of _define_a2a_skills
Skills ==
    [ travel_destination_recommendation |-> [authentication_required |-> TRUE],
      agent_status_inquiry |-> [authentication_required |-> FALSE] ]

ExecuteRequest(skill_id, has_input_data, session_id, auth_token, streaming) ==
    [ skill_id |-> skill_id, has_input_data |-> has_input_data, session_id |-> session_id,
      auth_token |-> auth_token, streaming |-> streaming ]

\* the requests of the model: streaming and a missing input_data are varied for
\* the skill that reads them
Requests ==
    { ExecuteRequest(skill_id, has_input_data, session_id, auth_token, streaming) :
        skill_id \in {"travel_destination_recommendation", "agent_status_inquiry",
                      "unknown_skill"},
        has_input_data \in BOOLEAN,
        session_id \in {NoSessionId, ClientSessionId, OtherSessionId},
        auth_token \in {NoAuthToken, AuthToken(MockToken), AuthToken(ForgedToken)},
        streaming \in BOOLEAN }

ModelRequests ==
    { r \in Requests :
        /\ r.skill_id /= "travel_destination_recommendation" => ~r.streaming
        /\ (r.skill_id /= "travel_destination_recommendation" \/ r.streaming)
               => r.has_input_data }

\* ExecuteResponse; a key not given is None (session_id) or "" (error, error_code)
ExecuteResponse(success, error, error_code, session_id, output_data) ==
    [ kind |-> "response", success |-> success, error |-> error, error_code |-> error_code,
      session_id |-> session_id, output_data |-> output_data ]

\* what handle_a2a_request returns for a streaming request: the generator
\* object, not yet started
StreamHandle(g) ==
    [ kind |-> "stream", success |-> TRUE, error |-> "", error_code |-> "",
      session_id |-> NoSessionId, output_data |-> [type |-> "generator", id |-> g] ]

NoOutput == [type |-> "none"]

\* the authentication failure of handle_a2a_request
AuthenticationFailed ==
    ExecuteResponse(FALSE, "Authentication failed", "AUTH_FAILED", NoSessionId, NoOutput)

\* _handle_recommendations_a2a (input_data being None raises AttributeError
\* before anything is built: see Dispatch)
_handle_recommendations_a2a(request) ==
    ExecuteResponse(TRUE, "", "", request.session_id,
        [ type |-> "recommendations",
          recommendations |->
              << [id |-> <<"rec", request.session_id, 1>>, destination |-> "Jeju",
                  match_score |-> 900],
                 [id |-> <<"rec", request.session_id, 2>>, destination |-> "Busan",
                  match_score |-> 800] >>,
          total_count |-> 2 ])

\* _handle_status_a2a, on the statistics as they are when it runs
_handle_status_a2a(request, handled, sessions) ==
    ExecuteResponse(TRUE, "", "", request.session_id,
        [ type |-> "status",
          requests_handled |-> handled,
          active_sessions |-> Cardinality(DOMAIN sessions),
          supported_skills |-> DOMAIN Skills ])

\* StreamingResponse
StreamingResponse(session_id, chunk_data, is_final) ==
    [session_id |-> session_id, chunk_data |-> chunk_data, is_final |-> is_final]

\* a faulty stream: the last progress notification is marked final as well
StreamChunk_EarlyFinal(request, i) ==
    IF i <= 3
    THEN StreamingResponse(request.session_id,
                           [type |-> "progress", step |-> i, progress |-> i * 33], i = 3)
    ELSE StreamingResponse(request.session_id,
                           [type |-> "result", step |-> 0, progress |-> 0], TRUE)

\* a faulty stream: the session id is read from the request the agent handled
\* last, not from the request of this stream
StreamChunk_SharedSession(request, i) ==
    IF i <= 3
    THEN StreamingResponse(a2a_call.request.session_id,
                           [type |-> "progress", step |-> i, progress |-> i * 33], FALSE)
    ELSE StreamingResponse(a2a_call.request.session_id,
                           [type |-> "result", step |-> 0, progress |-> 0], TRUE)

\* the i-th notification _stream_recommendations yields (i = 1..4)
StreamChunk(request, i) ==
    IF i <= 3
    THEN StreamingResponse(request.session_id,
                           [type |-> "progress", step |-> i, progress |-> i * 33], FALSE)
    ELSE StreamingResponse(request.session_id,
                           [type |-> "result", step |-> 0, progress |-> 0], TRUE)

\* the number of notifications of one stream
StreamLength == 4

\* a faulty dispatch: the last branch is taken for the status skill and every
\* skill not handled before it
Dispatch_StatusByDefault(request, session_id, handled, sessions, g) ==
    IF request.skill_id = "travel_destination_recommendation"
    THEN IF request.streaming
         THEN [handler |-> "_stream_recommendations", response |-> StreamHandle(g)]
         ELSE [ handler |-> "_handle_recommendations_a2a",
                response |->
                    IF request.has_input_data
                    THEN _handle_recommendations_a2a(request)
                    ELSE ExecuteResponse(FALSE, "AttributeError", "",
                                         request.session_id, NoOutput) ]
    ELSE [ handler |-> "_handle_status_a2a",
           response |-> _handle_status_a2a(request, handled, sessions) ]

\* the skill dispatch of handle_a2a_request, with the session registered:
\* the handler invoked and the value returned
Dispatch(request, session_id, handled, sessions, g) ==
    IF request.skill_id = "travel_destination_recommendation"
    THEN IF request.streaming
         THEN [handler |-> "_stream_recommendations", response |-> StreamHandle(g)]
         ELSE [ handler |-> "_handle_recommendations_a2a",
                response |->
                    IF request.has_input_data
                    THEN _handle_recommendations_a2a(request)
                    \* `except Exception as e`: request.input_data.get raised
                    ELSE ExecuteResponse(FALSE, "AttributeError", "",
                                         request.session_id, NoOutput) ]
    ELSE IF request.skill_id = "agent_status_inquiry"
    THEN [ handler |-> "_handle_status_a2a",
           response |-> _handle_status_a2a(request, handled, sessions) ]
    ELSE [ handler |-> "none",
           response |-> ExecuteResponse(FALSE, "Unsupported skill: " \o request.skill_id,
                                        "", session_id, NoOutput) ]

\* the authentication check of handle_a2a_request: TRUE when the request is
\* answered with the authentication failure
AuthRejects(request) ==
    /\ auth_enabled
    /\ request.auth_token.present
    /\ ~verify_token(request.auth_token.token)

StreamIds == {"g1", "g2"}

NoStream == [status |-> "none", request |-> ExecuteRequest("", FALSE, NoSessionId,
                                                          NoAuthToken, FALSE),
             emitted |-> <<>>]

NoCall == [ request |-> ExecuteRequest("", FALSE, NoSessionId, NoAuthToken, FALSE),
            handler |-> "none", session_id |-> NoSessionId, registered |-> FALSE,
            response |-> ExecuteResponse(FALSE, "", "", NoSessionId, NoOutput) ]

-----------------------------------------------------------------------------
(* TravelA2AAgent.handle_a2a_request and the streams it returns *)

\* a faulty handle_a2a_request: a request answered with the authentication
\* failure is counted in requests_handled as well
HandleA2ARequest_CountsRejected(request) ==
    /\ a2a_calls < MaxRequests
    /\ a2a_calls' = a2a_calls + 1
    /\ IF AuthRejects(request)
       THEN /\ a2a_call' = [ request |-> request, handler |-> "none",
                             session_id |-> NoSessionId, registered |-> FALSE,
                             response |-> AuthenticationFailed ]
            /\ requests_handled' = requests_handled + 1
            /\ UNCHANGED <<active_sessions, streams, uuids_issued, clock>>
       ELSE LET fresh == request.session_id = NoSessionId
                session_id == IF fresh THEN Uuid4(uuids_issued + 1) ELSE request.session_id
                sessions == Put(active_sessions, session_id,
                                [start_time |-> clock + 1, skill_id |-> request.skill_id])
                handled == requests_handled + 1
            IN \E g \in StreamIds :
                 LET d == Dispatch(request, session_id, handled, sessions, g)
                     streaming == d.response.kind = "stream"
                 IN /\ IF streaming
                       THEN streams[g].status \in {"none", "exhausted"}
                       ELSE g = CHOOSE x \in StreamIds : TRUE
                    /\ uuids_issued' = IF fresh THEN uuids_issued + 1 ELSE uuids_issued
                    /\ clock' = clock + 1
                    /\ active_sessions' = sessions
                    /\ requests_handled' = handled
                    /\ streams' = IF streaming
                                  THEN [streams EXCEPT ![g] =
                                           [ status |-> "created", request |-> request,
                                             emitted |-> <<>> ]]
                                  ELSE streams
                    /\ a2a_call' = [ request |-> request, handler |-> d.handler,
                                     session_id |-> session_id, registered |-> TRUE,
                                     response |-> d.response ]
    /\ UNCHANGED auth_enabled

\* handle_a2a_request(request): no awaited call of it suspends, so it runs as
\* one step
HandleA2ARequest(request) ==
    /\ a2a_calls < MaxRequests
    /\ a2a_calls' = a2a_calls + 1
    /\ IF AuthRejects(request)
       THEN /\ a2a_call' = [ request |-> request, handler |-> "none",
                             session_id |-> NoSessionId, registered |-> FALSE,
                             response |-> AuthenticationFailed ]
            /\ UNCHANGED <<active_sessions, requests_handled, streams, uuids_issued, clock>>
       ELSE LET fresh == request.session_id = NoSessionId
                session_id == IF fresh THEN Uuid4(uuids_issued + 1) ELSE request.session_id
                sessions == Put(active_sessions, session_id,
                                [start_time |-> clock + 1, skill_id |-> request.skill_id])
                handled == requests_handled + 1
            IN \E g \in StreamIds :
                 LET d == Dispatch(request, session_id, handled, sessions, g)
                     streaming == d.response.kind = "stream"
                 IN /\ IF streaming
                       THEN streams[g].status \in {"none", "exhausted"}
                       ELSE g = CHOOSE x \in StreamIds : TRUE
                    /\ uuids_issued' = IF fresh THEN uuids_issued + 1 ELSE uuids_issued
                    /\ clock' = clock + 1
                    /\ active_sessions' = sessions
                    /\ requests_handled' = handled
                    /\ streams' = IF streaming
                                  THEN [streams EXCEPT ![g] =
                                           [ status |-> "created", request |-> request,
                                             emitted |-> <<>> ]]
                                  ELSE streams
                    /\ a2a_call' = [ request |-> request, handler |-> d.handler,
                                     session_id |-> session_id, registered |-> TRUE,
                                     response |-> d.response ]
    /\ UNCHANGED auth_enabled

\* the consumer asks the generator g for its next notification: the body of
\* _stream_recommendations runs to its next yield
StreamNext(g) ==
    /\ streams[g].status \in {"created", "running"}
    /\ Len(streams[g].emitted) < StreamLength
    /\ streams' = [streams EXCEPT ![g] =
                      [ status |-> "running", request |-> @.request,
                        emitted |-> Append(@.emitted,
                                           StreamChunk(@.request, Len(@.emitted) + 1)) ]]
    /\ UNCHANGED <<auth_enabled, active_sessions, requests_handled, a2a_call, a2a_calls,
                   uuids_issued, clock>>

\* the consumer asks again after the final notification: the generator returns
\* (StopAsyncIteration)
StreamEnd(g) ==
    /\ streams[g].status = "running"
    /\ Len(streams[g].emitted) = StreamLength
    /\ streams' = [streams EXCEPT ![g].status = "exhausted"]
    /\ UNCHANGED <<auth_enabled, active_sessions, requests_handled, a2a_call, a2a_calls,
                   uuids_issued, clock>>

\* the generator g fails part-way: an exception is raised at
\* `await asyncio.sleep(0.2)`, the one await of _stream_recommendations, which
\* precedes each progress notification (the task consuming the stream is
\* cancelled, or the consumer throws into it). The body has no try block: the
\* exception leaves the generator, which yields nothing more.
StreamFails(g) ==
    /\ streams[g].status \in {"created", "running"}
    /\ Len(streams[g].emitted) < StreamLength - 1
    /\ streams' = [streams EXCEPT ![g].status = "failed"]
    /\ UNCHANGED <<auth_enabled, active_sessions, requests_handled, a2a_call, a2a_calls,
                   uuids_issued, clock>>

\* the token of an agent without authenticator
NoAuthRequired == <<"no_auth_required", "">>

\* a faulty authenticator: the token it issues lacks the prefix verify_token
\* looks for
authenticate_client_Unprefixed(enabled) ==
    IF enabled THEN AuthToken(<<"token_", "uuid">>) ELSE AuthToken(NoAuthRequired)

\* authenticate_client: self.authenticator is set exactly when auth_enabled;
\* A2AAuthenticator.authenticate issues "mock_token_" + str(uuid.uuid4())
authenticate_client(enabled) ==
    IF enabled THEN AuthToken(MockToken) ELSE AuthToken(NoAuthRequired)

\* TravelA2AAgent(auth_enabled=...) for a value of `auth`
InitA2A(auth) ==
    /\ auth_enabled \in auth
    /\ active_sessions = EmptyDict
    /\ requests_handled = 0
    /\ a2a_call = NoCall
    /\ a2a_calls = 0
    /\ streams = [g \in StreamIds |-> NoStream]
    /\ uuids_issued = 0

-----------------------------------------------------------------------------
(* TravelMultiAgentOrchestrator: the session store and process_travel_request *)

\* the A2ASession built by create_a2a_session: the library class keeps the
\* keyword arguments; the mock class keeps none of them and draws a session_id
\* of its own
A2ASession(available, session_id, own_id, user_request, now) ==
    IF available
    THEN [ session_id |-> session_id, has_created_at |-> TRUE, created_at |-> now,
           status |-> "active", user_request |-> user_request ]
    ELSE [ session_id |-> own_id, has_created_at |-> FALSE, created_at |-> 0,
           status |-> "", user_request |-> EmptyDict ]

\* self.active_sessions.pop(session_id)
Pop(sessions, session_id) == [k \in (DOMAIN sessions) \ {session_id} |-> sessions[k]]

\* the user requests of the model: a dict with or without workflow_type, or
\* no dict at all
UserRequests ==
    { [type |-> "dict", data |-> [workflow_type |-> "parallel"]],
      [type |-> "dict", data |-> [workflow_type |-> "sequential"]],
      [type |-> "dict", data |-> EmptyDict],
      [type |-> "NoneType", data |-> EmptyDict] }

CallIds == {"p1", "p2"}

OrchCall(pc, session_id, user_request, result, outcome) ==
    [ pc |-> pc, session_id |-> session_id, user_request |-> user_request,
      result |-> result, outcome |-> outcome ]

NoUserRequest == [type |-> "NoneType", data |-> EmptyDict]

IdleCall == OrchCall("idle", NoSessionId, NoUserRequest, 0, Pending)

\* the dict process_travel_request returns from its try block
SuccessResult(session_id, agents_involved) ==
    [ success |-> TRUE, session_id |-> session_id, error |-> "",
      agents_involved |-> agents_involved ]

\* the dict process_travel_request returns from `except Exception as e`
FailureResult(session_id, error) ==
    [ success |-> FALSE, session_id |-> session_id, error |-> error, agents_involved |-> 0 ]

\* len(result) of the workflow: the sequential workflow asks the travel, the
\* weather and the booking agent; the parallel one returns what ParallelAgent.run
\* returns
AgentsInvolved(user_request) ==
    IF Get(user_request.data, "workflow_type", "") = "parallel" THEN 0 ELSE 3

\* create_a2a_session, called first by process_travel_request(user_request)
CreateA2ASession(c, user_request) ==
    /\ orch_calls[c].pc \in {"idle", "done"}
    /\ orch_calls_started < MaxCalls
    /\ orch_calls_started' = orch_calls_started + 1
    /\ LET session_id == Uuid4(uuids_issued + 1)
           session == A2ASession(adk_available, session_id, Uuid4(uuids_issued + 2),
                                 user_request, clock + 1)
       IN /\ uuids_issued' = uuids_issued + (IF adk_available THEN 1 ELSE 2)
          /\ clock' = clock + 1
          /\ orch_sessions' = Put(orch_sessions, session_id, session)
          /\ bus_events' = Append(bus_events, Event("session_started",
                                                    [session_id |-> session_id]))
          /\ orch_calls' = [orch_calls EXCEPT ![c] =
                               OrchCall("workflow", session_id, user_request, 0, Pending)]
    /\ UNCHANGED <<adk_available, shared_memory>>

\* the try block up to the end of the workflow: the Context is built and
\* _execute_parallel_workflow or _execute_sequential_workflow awaited; any of
\* their agents may raise, and user_request.get raises when it is no dict
ExecuteWorkflow(c) ==
    /\ orch_calls[c].pc = "workflow"
    /\ \E agent_fails \in BOOLEAN :
         LET call == orch_calls[c]
         IN orch_calls' = [orch_calls EXCEPT ![c] =
               IF call.user_request.type /= "dict"
               THEN [call EXCEPT !.pc = "except", !.outcome = Raised("AttributeError")]
               ELSE IF agent_fails
               THEN [call EXCEPT !.pc = "except", !.outcome = Raised("agent")]
               ELSE [call EXCEPT !.pc = "integrate",
                                 !.result = AgentsInvolved(call.user_request)]]
    /\ clock' = clock + 1
    /\ UNCHANGED <<adk_available, orch_sessions, orch_calls_started, shared_memory,
                   bus_events, uuids_issued>>

\* _integrate_agent_results (the coordinator may raise), then
\* shared_memory.store and the success dict, which is returned once the
\* finally block has run
IntegrateAndStore(c) ==
    /\ orch_calls[c].pc = "integrate"
    /\ \E coordinator_fails \in BOOLEAN :
         IF coordinator_fails
         THEN /\ orch_calls' = [orch_calls EXCEPT ![c].pc = "except",
                                                  ![c].outcome = Raised("coordinator")]
              /\ UNCHANGED shared_memory
         ELSE /\ shared_memory' = Put(shared_memory, orch_calls[c].session_id,
                                      orch_calls[c].result)
              /\ orch_calls' = [orch_calls EXCEPT
                     ![c].pc = "finally",
                     ![c].outcome = Returned(SuccessResult(orch_calls[c].session_id,
                                                           orch_calls[c].result))]
    /\ clock' = clock + 1
    /\ UNCHANGED <<adk_available, orch_sessions, orch_calls_started, bus_events,
                   uuids_issued>>

\* `except Exception as e`: the failure dict, returned once the finally block
\* has run
ExceptBlock(c) ==
    /\ orch_calls[c].pc = "except"
    /\ orch_calls' = [orch_calls EXCEPT
           ![c].pc = "finally",
           ![c].outcome = Returned(FailureResult(orch_calls[c].session_id,
                                                 orch_calls[c].outcome.error))]
    /\ clock' = clock + 1
    /\ UNCHANGED <<adk_available, orch_sessions, orch_calls_started, shared_memory,
                   bus_events, uuids_issued>>

\* the task awaiting process_travel_request is cancelled while the try block
\* awaits the workflow or the integration: CancelledError passes
\* `except Exception` and the finally block runs
CancelCall(c) ==
    /\ orch_calls[c].pc \in {"workflow", "integrate"}
    /\ orch_calls' = [orch_calls EXCEPT ![c].pc = "finally",
                                        ![c].outcome = Raised("CancelledError")]
    /\ UNCHANGED <<adk_available, orch_sessions, orch_calls_started, shared_memory,
                   bus_events, uuids_issued, clock>>

\* a faulty _close_a2a_session: the session is read, not popped
SessionsAfterClose_NoPop(sessions, session_id) == sessions

\* the session table after _close_a2a_session(session_id)
SessionsAfterClose(sessions, session_id) ==
    IF session_id \in DOMAIN sessions THEN Pop(sessions, session_id) ELSE sessions

\* the finally block: _close_a2a_session(session_id). The session is popped
\* first; the duration of the session_ended event reads session.created_at,
\* which the mock A2ASession does not have: the AttributeError then replaces
\* the value the call was about to return.
CloseA2ASession(c) ==
    /\ orch_calls[c].pc = "finally"
    /\ LET session_id == orch_calls[c].session_id
           present == session_id \in DOMAIN orch_sessions
           raises == present /\ ~orch_sessions[session_id].has_created_at
       IN /\ orch_sessions' = SessionsAfterClose(orch_sessions, session_id)
          /\ bus_events' = IF present /\ ~raises
                           THEN Append(bus_events, Event("session_ended",
                                                         [session_id |-> session_id]))
                           ELSE bus_events
          /\ clock' = IF present /\ ~raises THEN clock + 1 ELSE clock
          /\ orch_calls' = [orch_calls EXCEPT
                 ![c].pc = "done",
                 ![c].outcome = IF raises THEN Raised("AttributeError") ELSE @]
    /\ UNCHANGED <<adk_available, orch_calls_started, shared_memory, uuids_issued>>

\* TravelMultiAgentOrchestrator(), with or without the library
InitOrchestrator(available) ==
    /\ adk_available \in available
    /\ orch_sessions = EmptyDict
    /\ orch_calls = [c \in CallIds |-> IdleCall]
    /\ orch_calls_started = 0
    /\ shared_memory = EmptyDict
    /\ bus_events = <<>>

-----------------------------------------------------------------------------
(* Direct calls of the tools and steps of TravelRecommendationAgent *)

NoToolCall == [tool |-> "none", args |-> <<>>, result |-> <<>>]

InitTools ==
    /\ tool_call = NoToolCall
    /\ tool_calls = 0

ToolCall(tool, args, result) == [tool |-> tool, args |-> args, result |-> result]

\* the budgets handed to _optimize_travel_budget
ToolBudgets == {-700, 0, 1, 180, 800000, 1000000, 1234567}

\* the preference dicts handed to the tools: the flags the tools read
ToolPreferences ==
    {EmptyDict} \cup [{"nature", "culture"} -> BOOLEAN] \cup [{"food", "luxury"} -> BOOLEAN]

\* the destination candidates handed to _calculate_match_score: any category,
\* a popularity (in tenths) inside and outside 0..10, or none
ToolDestinations ==
    { [name |-> "Jeju", category |-> category, popularity |-> popularity] :
        category \in {"nature", "culture", "city"},
        popularity \in {-300, -1, 0, 95, 100, 400} }
    \cup { [name |-> "Jeju", category |-> category] : category \in {"nature", "city"} }

\* the destination lists handed to _step_generate_recommendations: every list
\* of up to 4 candidates, one of them without a name
ListCandidates ==
    { [name |-> "Jeju", category |-> "nature", popularity |-> 95],
      [category |-> "city", popularity |-> 87] }

DestinationLists ==
    UNION { [1..n -> ListCandidates] : n \in 0..4 }

\* the analyses handed to _step_generate_recommendations: the one of the
\* parallel phase, one with fewer scores and itineraries than destinations,
\* one with an empty scores list, and none
ToolAnalyses ==
    { IntegratedAnalysis(ParallelAgentRun(EmptyDict)),
      [ preference_matching |-> [scores |-> <<950>>],
        itinerary_planning |-> [itineraries |-> <<>>] ],
      [ preference_matching |-> [scores |-> <<>>] ],
      EmptyDict }

\* the workflow_results handed to _step_generate_recommendations
ToolWorkflowResults ==
    { [destinations |-> destinations, analysis |-> analysis] :
        destinations \in DestinationLists, analysis \in ToolAnalyses }
    \cup { [analysis |-> analysis] : analysis \in ToolAnalyses }

\* await agent._optimize_travel_budget(budget, preferences)
OptimizeTravelBudget(budget, preferences) ==
    /\ tool_calls < MaxToolCalls
    /\ tool_calls' = tool_calls + 1
    /\ \E float_error \in {0, 1} :
         tool_call' = ToolCall("_optimize_travel_budget",
                               [budget |-> budget, preferences |-> preferences],
                               _optimize_travel_budget(budget, preferences, float_error))

\* agent._calculate_match_score(destination, preferences)
CalculateMatchScore(destination, preferences) ==
    /\ tool_calls < MaxToolCalls
    /\ tool_calls' = tool_calls + 1
    /\ tool_call' = ToolCall("_calculate_match_score",
                             [destination |-> destination, preferences |-> preferences],
                             _calculate_match_score(destination, preferences))

\* the candidates handed to _match_destinations: the mock destinations of the
\* search step, and one of the category and popularity of another
MatchCandidates ==
    { _process_search_results[1], _process_search_results[2], _process_search_results[4],
      [name |-> "Seoul", category |-> "city", popularity |-> 87] }

\* the destination lists handed to _match_destinations: up to 3 candidates,
\* none of them twice
MatchLists ==
    UNION { {l \in [1..n -> MatchCandidates] : \A i, j \in 1..n : l[i] = l[j] => i = j} :
            n \in 0..3 }

\* the preferences handed to _match_destinations
MatchPreferences ==
    {EmptyDict, [nature |-> TRUE, culture |-> FALSE], [nature |-> FALSE, culture |-> TRUE]}

\* await agent._match_destinations(destinations, preferences)
MatchDestinations(destinations, preferences) ==
    /\ tool_calls < MaxToolCalls
    /\ tool_calls' = tool_calls + 1
    /\ tool_call' = ToolCall("_match_destinations",
                             [destinations |-> destinations, preferences |-> preferences],
                             _match_destinations(destinations, preferences))

\* the entries handed to Memory.store
MemoryEntries == {[step |-> "analyze_preferences"], [step |-> "search_destinations"]}

\* memory = Memory(enabled, max_size); memory_data is memory.data, and
\* `stored` keeps the entries handed to memory.store so far
NewMemory(enabled, max_size) ==
    /\ tool_call = NoToolCall
    /\ memory_data' = <<>>
    /\ tool_call' = ToolCall("Memory",
                             [enabled |-> enabled, max_size |-> max_size, stored |-> <<>>],
                             None)
    /\ UNCHANGED <<tool_calls, travel_state, wf_pc, context, results, state_data,
                   state_history_len, events, recommendations_count, workflow_executions,
                   sub_failed, run_outcome, runs_started, run_results, clock>>

\* await memory.store(entry)
StoreEntry(entry) ==
    /\ tool_call.tool \in {"Memory", "Memory.store"}
    /\ Len(tool_call.args.stored) < MaxStores
    /\ memory_data' = MemoryStore(memory_data, tool_call.args.enabled,
                                  tool_call.args.max_size, entry)
    /\ tool_call' = ToolCall("Memory.store",
                             [tool_call.args EXCEPT !.stored = Append(@, entry)], None)
    /\ UNCHANGED <<tool_calls, travel_state, wf_pc, context, results, state_data,
                   state_history_len, events, recommendations_count, workflow_executions,
                   sub_failed, run_outcome, runs_started, run_results, clock>>

\* await agent._optimize_travel_budget(budget, preferences), again and again on
\* one agent; `earlier` keeps the preferences of the call before, if any
OptimizeTravelBudgetAgain(budget, preferences) ==
    /\ \E float_error \in {0, 1} :
         tool_call' = ToolCall("_optimize_travel_budget",
                               [ budget |-> budget, preferences |-> preferences,
                                 earlier |-> IF tool_call.tool = "_optimize_travel_budget"
                                             THEN {tool_call.args.preferences} ELSE {} ],
                               _optimize_travel_budget(budget, preferences, float_error))
    /\ UNCHANGED tool_calls

\* the preference dicts handed to _build_search_query: the category flags
\* _analyze_user_preferences sets, in every combination, and no flag at all
QueryPreferences ==
    {EmptyDict} \cup [{"nature", "culture", "food"} -> BOOLEAN]

\* agent._build_search_query(preferences)
BuildSearchQuery(preferences) ==
    /\ tool_calls < MaxToolCalls
    /\ tool_calls' = tool_calls + 1
    /\ tool_call' = ToolCall("_build_search_query", [preferences |-> preferences],
                             _build_search_query(preferences))

\* await agent._step_generate_recommendations(Context(ctx), workflow_results)
GenerateRecommendations(ctx, workflow_results) ==
    /\ tool_calls < MaxToolCalls
    /\ tool_calls' = tool_calls + 1
    /\ LET recommendations == Recommendations(ctx, workflow_results, clock)
       IN /\ StateUpdate("recommendations", recommendations)
          /\ recommendations_count' = recommendations_count + Len(recommendations)
          /\ clock' = clock + Len(recommendations)
          /\ tool_call' = ToolCall("_step_generate_recommendations",
                                   [ctx |-> ctx, workflow_results |-> workflow_results],
                                   recommendations)
    /\ UNCHANGED <<travel_state, wf_pc, context, results, memory_data, events,
                   workflow_executions, sub_failed, run_outcome, runs_started, run_results>>

-----------------------------------------------------------------------------
(* Direct calls of the session store of TravelMultiAgentOrchestrator *)

\* the session ids handed to _close_a2a_session: every id create_a2a_session
\* has drawn so far and one it never drew
CloseSessionIds == {Uuid4(n) : n \in 1..uuids_issued} \cup {ClientSessionId}

\* await orchestrator.create_a2a_session(user_request)
CreateSession(user_request) ==
    /\ orch_calls_started < MaxCalls
    /\ orch_calls_started' = orch_calls_started + 1
    /\ LET session_id == Uuid4(uuids_issued + 1)
           session == A2ASession(adk_available, session_id, Uuid4(uuids_issued + 2),
                                 user_request, clock + 1)
       IN /\ uuids_issued' = uuids_issued + (IF adk_available THEN 1 ELSE 2)
          /\ clock' = clock + 1
          /\ orch_sessions' = Put(orch_sessions, session_id, session)
          /\ bus_events' = Append(bus_events, Event("session_started",
                                                    [session_id |-> session_id]))
          /\ tool_call' = ToolCall("create_a2a_session", [user_request |-> user_request],
                                   Returned(session_id))
    /\ UNCHANGED <<adk_available, orch_calls, shared_memory, tool_calls>>

\* await orchestrator._close_a2a_session(session_id): `known` is the test
\* `session_id in self.active_sessions`; where it fails the method does
\* nothing and returns None
CloseSession(session_id) ==
    LET known == session_id \in DOMAIN orch_sessions
        raises == known /\ ~orch_sessions[session_id].has_created_at
    IN /\ orch_sessions' = SessionsAfterClose(orch_sessions, session_id)
       /\ bus_events' = IF known /\ ~raises
                        THEN Append(bus_events, Event("session_ended",
                                                      [session_id |-> session_id]))
                        ELSE bus_events
       /\ clock' = IF known /\ ~raises THEN clock + 1 ELSE clock
       /\ tool_call' = ToolCall("_close_a2a_session",
                                [session_id |-> session_id, known |-> known],
                                IF raises THEN Raised("AttributeError") ELSE Returned(None))
       /\ UNCHANGED <<adk_available, orch_calls, orch_calls_started, shared_memory,
                      uuids_issued, tool_calls>>

-----------------------------------------------------------------------------
(* A client of TravelA2AAgent that authenticates *)

\* await agent.authenticate_client(credentials): the client keeps the token
AuthenticateClient ==
    /\ tool_calls < MaxToolCalls
    /\ tool_calls' = tool_calls + 1
    /\ tool_call' = ToolCall("authenticate_client", [credentials |-> [user |-> "test"]],
                             authenticate_client(auth_enabled))

\* the tokens a client presents: the one the agent issued to it, if any, one
\* that no authenticator issued, and the one of an agent without authenticator
PresentedTokens ==
    {AuthToken(ForgedToken), AuthToken(NoAuthRequired)}
        \cup (IF tool_call.tool = "authenticate_client" THEN {tool_call.result} ELSE {})

\* the requests made with a presented token
PresentedRequests ==
    { [request EXCEPT !.auth_token = token] :
        request \in {r \in ModelRequests : r.auth_token.present},
        token \in PresentedTokens }

-----------------------------------------------------------------------------
(* AgentRegistry and HybridAgent *)

\* AgentProtocol
AgentProtocol == {"a2a", "adk", "hybrid"}

AgentIds == {"agent-1", "agent-2"}

\* the agents handed to register_agent: two objects for each agent_id
AgentObjects ==
    { [agent_id |-> agent_id, name |-> name, protocol |-> "hybrid"] :
        agent_id \in AgentIds, name \in {"hybrid agent", "another agent"} }

\* a faulty register_agent: the agent registered under the id is replaced
register_agent_Overwrites(registry, agent) ==
    [agents |-> Put(registry, agent.agent_id, agent), result |-> TRUE]

\* AgentRegistry.register_agent: the new value of self.agents and the value
\* returned
register_agent(registry, agent) ==
    IF agent.agent_id \notin DOMAIN registry
    THEN [agents |-> Put(registry, agent.agent_id, agent), result |-> TRUE]
    ELSE [agents |-> registry, result |-> FALSE]

\* AgentRegistry.unregister_agent
unregister_agent(registry, agent_id) ==
    IF agent_id \in DOMAIN registry
    THEN [agents |-> Pop(registry, agent_id), result |-> TRUE]
    ELSE [agents |-> registry, result |-> FALSE]

\* a faulty switch_protocol: every protocol of the enum is accepted
switch_protocol_AnyProtocol(active, target_protocol) ==
    [active_protocol |-> target_protocol, result |-> TRUE]

\* HybridAgent.switch_protocol: the new value of self.active_protocol and the
\* value returned
switch_protocol(active, target_protocol) ==
    IF target_protocol \in {"a2a", "adk"}
    THEN [active_protocol |-> target_protocol, result |-> TRUE]
    ELSE [active_protocol |-> active, result |-> FALSE]

\* capabilities of create_hybrid_agent(..., capabilities=["multi_protocol_support"])
HybridCapabilities == <<"multi_protocol_support">>

\* HybridAgent.get_current_capabilities
get_current_capabilities(capabilities, active) ==
    IF active = "a2a" THEN capabilities \o <<"message_routing", "peer_communication">>
    ELSE IF active = "adk" THEN capabilities \o <<"llm_processing", "google_cloud_integration">>
    ELSE capabilities

\* the last successful operation on agent_id is `op` if it returned True
Succeeded(op, agent_id, result) ==
    IF result THEN [last_success EXCEPT ![agent_id] = op] ELSE last_success

\* registry.register_agent(agent)
RegisterAgent(agent) ==
    LET r == register_agent(agents, agent)
    IN /\ agents' = r.agents
       /\ last_success' = Succeeded("register_agent", agent.agent_id, r.result)
       /\ tool_call' = ToolCall("register_agent", [agent |-> agent], r.result)
       /\ UNCHANGED <<active_protocol, tool_calls>>

\* registry.unregister_agent(agent_id)
UnregisterAgent(agent_id) ==
    LET r == unregister_agent(agents, agent_id)
    IN /\ agents' = r.agents
       /\ last_success' = Succeeded("unregister_agent", agent_id, r.result)
       /\ tool_call' = ToolCall("unregister_agent", [agent_id |-> agent_id], r.result)
       /\ UNCHANGED <<active_protocol, tool_calls>>

\* hybrid_agent.switch_protocol(target_protocol)
SwitchProtocol(target_protocol) ==
    LET r == switch_protocol(active_protocol, target_protocol)
    IN /\ active_protocol' = r.active_protocol
       /\ tool_call' = ToolCall("switch_protocol", [target_protocol |-> target_protocol],
                                r.result)
       /\ UNCHANGED <<agents, last_success, tool_calls>>

\* hybrid_agent.get_current_capabilities()
GetCurrentCapabilities ==
    /\ tool_call' = ToolCall("get_current_capabilities", <<>>,
                             get_current_capabilities(HybridCapabilities, active_protocol))
    /\ UNCHANGED <<agents, last_success, active_protocol, tool_calls>>

\* AgentRegistry() and create_hybrid_agent(...)
InitApp ==
    /\ agents = EmptyDict
    /\ last_success = [agent_id \in AgentIds |-> "none"]
    /\ active_protocol = "a2a"

-----------------------------------------------------------------------------
(* Specifications *)

InitWorkflow ==
    /\ travel_state = "initialized"
    /\ wf_pc = Idle
    /\ context = EmptyDict
    /\ results = EmptyDict
    /\ state_data = EmptyDict
    /\ state_history_len = 0
    /\ memory_data = <<>>
    /\ events = <<>>
    /\ recommendations_count = 0
    /\ workflow_executions = 0
    /\ sub_failed = {}
    /\ run_outcome = Pending
    /\ runs_started = 0
    /\ run_results = {}
    /\ clock = 0

\* every component in its state after construction
Init == InitWorkflow /\ InitA2A({TRUE}) /\ InitOrchestrator({TRUE}) /\ InitTools /\ InitApp /\ InitTasks

InitSpecA2A ==
    InitWorkflow /\ InitA2A(BOOLEAN) /\ InitOrchestrator({TRUE}) /\ InitTools /\ InitApp /\ InitTasks

InitSpecOrchestrator ==
    InitWorkflow /\ InitA2A({TRUE}) /\ InitOrchestrator(BOOLEAN) /\ InitTools /\ InitApp /\ InitTasks

\* one TravelRecommendationAgent, run again and again
NextWorkflow ==
    \/ (\E ctx \in Contexts : Run(ctx)) /\ UNCHANGED <<a2a_vars, orch_vars, tool_vars, app_vars, task_vars>>
    \/ (\E k \in 1..Len(WorkflowSteps) : EnterPhase(k)) /\ UNCHANGED <<a2a_vars, orch_vars, tool_vars, app_vars, task_vars>>
    \/ StepAnalyzePreferences /\ UNCHANGED <<a2a_vars, orch_vars, tool_vars, app_vars, task_vars>>
    \/ StepSearchDestinations /\ UNCHANGED <<a2a_vars, orch_vars, tool_vars, app_vars, task_vars>>
    \/ StepParallelAnalysis /\ UNCHANGED <<a2a_vars, orch_vars, tool_vars, app_vars, task_vars>>
    \/ StepGenerateRecommendations /\ UNCHANGED <<a2a_vars, orch_vars, tool_vars, app_vars, task_vars>>
    \/ Complete /\ UNCHANGED <<a2a_vars, orch_vars, tool_vars, app_vars, task_vars>>
    \/ HandleException /\ UNCHANGED <<a2a_vars, orch_vars, tool_vars, app_vars, task_vars>>

Spec == Init /\ [][NextWorkflow]_vars

\* one TravelA2AAgent, its clients and the consumers of its streams
NextA2A ==
    \/ (\E request \in ModelRequests : HandleA2ARequest(request)) /\ UNCHANGED <<wf_own, orch_vars, tool_vars, app_vars, task_vars>>
    \/ (\E g \in StreamIds : StreamNext(g)) /\ UNCHANGED <<wf_own, orch_vars, tool_vars, app_vars, task_vars>>
    \/ (\E g \in StreamIds : StreamEnd(g)) /\ UNCHANGED <<wf_own, orch_vars, tool_vars, app_vars, task_vars>>

SpecA2A == InitSpecA2A /\ [][NextA2A]_vars

\* one TravelMultiAgentOrchestrator and the calls of process_travel_request,
\* which interleave at their awaits
NextOrchestrator ==
    \/ (\E c \in CallIds, user_request \in UserRequests : CreateA2ASession(c, user_request))
           /\ UNCHANGED <<wf_own, a2a_own, tool_vars, app_vars, task_vars>>
    \/ (\E c \in CallIds : ExecuteWorkflow(c)) /\ UNCHANGED <<wf_own, a2a_vars, tool_vars, app_vars, task_vars>>
    \/ (\E c \in CallIds : IntegrateAndStore(c)) /\ UNCHANGED <<wf_own, a2a_vars, tool_vars, app_vars, task_vars>>
    \/ (\E c \in CallIds : ExceptBlock(c)) /\ UNCHANGED <<wf_own, a2a_vars, tool_vars, app_vars, task_vars>>
    \/ (\E c \in CallIds : CloseA2ASession(c)) /\ UNCHANGED <<wf_own, a2a_vars, tool_vars, app_vars, task_vars>>

SpecOrchestrator == InitSpecOrchestrator /\ [][NextOrchestrator]_vars

\* one TravelRecommendationAgent whose tools and last step are called directly
NextTools ==
    \/ (\E budget \in ToolBudgets, preferences \in ToolPreferences :
            OptimizeTravelBudget(budget, preferences))
           /\ UNCHANGED <<wf_vars, a2a_vars, orch_vars, app_vars, task_vars>>
    \/ (\E destination \in ToolDestinations, preferences \in ToolPreferences :
            CalculateMatchScore(destination, preferences))
           /\ UNCHANGED <<wf_vars, a2a_vars, orch_vars, app_vars, task_vars>>
    \/ (\E preferences \in QueryPreferences : BuildSearchQuery(preferences))
           /\ UNCHANGED <<wf_vars, a2a_vars, orch_vars, app_vars, task_vars>>
    \/ (\E ctx \in {EmptyDict, [session_id |-> "adk_test_001"]},
            workflow_results \in ToolWorkflowResults :
            GenerateRecommendations(ctx, workflow_results))
           /\ UNCHANGED <<a2a_vars, orch_vars, app_vars, task_vars>>

SpecTools == Init /\ [][NextTools]_vars

\* one TravelRecommendationAgent whose runs may be cancelled
NextCancellation ==
    \/ (\E ctx \in Contexts : Run(ctx)) /\ UNCHANGED <<a2a_vars, orch_vars, tool_vars, app_vars, task_vars>>
    \/ (\E k \in 1..Len(WorkflowSteps) : EnterPhase(k)) /\ UNCHANGED <<a2a_vars, orch_vars, tool_vars, app_vars, task_vars>>
    \/ StepAnalyzePreferences /\ UNCHANGED <<a2a_vars, orch_vars, tool_vars, app_vars, task_vars>>
    \/ StepSearchDestinations /\ UNCHANGED <<a2a_vars, orch_vars, tool_vars, app_vars, task_vars>>
    \/ StepParallelAnalysis /\ UNCHANGED <<a2a_vars, orch_vars, tool_vars, app_vars, task_vars>>
    \/ StepGenerateRecommendations /\ UNCHANGED <<a2a_vars, orch_vars, tool_vars, app_vars, task_vars>>
    \/ Complete /\ UNCHANGED <<a2a_vars, orch_vars, tool_vars, app_vars, task_vars>>
    \/ HandleException /\ UNCHANGED <<a2a_vars, orch_vars, tool_vars, app_vars, task_vars>>
    \/ CancelRun /\ UNCHANGED <<a2a_vars, orch_vars, tool_vars, app_vars, task_vars>>

SpecCancellation == Init /\ [][NextCancellation]_vars

\* one TravelMultiAgentOrchestrator whose calls may be cancelled
NextOrchestratorCancellation ==
    \/ (\E c \in CallIds, user_request \in UserRequests : CreateA2ASession(c, user_request))
           /\ UNCHANGED <<wf_own, a2a_own, tool_vars, app_vars, task_vars>>
    \/ (\E c \in CallIds : ExecuteWorkflow(c)) /\ UNCHANGED <<wf_own, a2a_vars, tool_vars, app_vars, task_vars>>
    \/ (\E c \in CallIds : IntegrateAndStore(c)) /\ UNCHANGED <<wf_own, a2a_vars, tool_vars, app_vars, task_vars>>
    \/ (\E c \in CallIds : ExceptBlock(c)) /\ UNCHANGED <<wf_own, a2a_vars, tool_vars, app_vars, task_vars>>
    \/ (\E c \in CallIds : CloseA2ASession(c)) /\ UNCHANGED <<wf_own, a2a_vars, tool_vars, app_vars, task_vars>>
    \/ (\E c \in CallIds : CancelCall(c)) /\ UNCHANGED <<wf_vars, a2a_vars, tool_vars, app_vars, task_vars>>

SpecOrchestratorCancellation ==
    InitSpecOrchestrator /\ [][NextOrchestratorCancellation]_vars

\* one TravelA2AAgent whose streams may fail part-way
NextStreamFailure ==
    \/ (\E request \in ModelRequests : HandleA2ARequest(request)) /\ UNCHANGED <<wf_own, orch_vars, tool_vars, app_vars, task_vars>>
    \/ (\E g \in StreamIds : StreamNext(g)) /\ UNCHANGED <<wf_own, orch_vars, tool_vars, app_vars, task_vars>>
    \/ (\E g \in StreamIds : StreamEnd(g)) /\ UNCHANGED <<wf_own, orch_vars, tool_vars, app_vars, task_vars>>
    \/ (\E g \in StreamIds : StreamFails(g)) /\ UNCHANGED <<wf_vars, orch_vars, tool_vars, app_vars, task_vars>>

SpecStreamFailure == InitSpecA2A /\ [][NextStreamFailure]_vars

\* one TravelA2AAgent and a client that authenticates and then makes requests
NextRoundTrip ==
    \/ AuthenticateClient /\ UNCHANGED <<wf_vars, a2a_vars, orch_vars, app_vars, task_vars>>
    \/ (\E request \in PresentedRequests : HandleA2ARequest(request))
           /\ UNCHANGED <<wf_own, orch_vars, tool_vars, app_vars, task_vars>>
    \/ (\E g \in StreamIds : StreamNext(g)) /\ UNCHANGED <<wf_own, orch_vars, tool_vars, app_vars, task_vars>>
    \/ (\E g \in StreamIds : StreamEnd(g)) /\ UNCHANGED <<wf_own, orch_vars, tool_vars, app_vars, task_vars>>

SpecRoundTrip == InitSpecA2A /\ [][NextRoundTrip]_vars

\* one AgentRegistry and one HybridAgent, their methods called in any order
NextApp ==
    \/ (\E agent \in AgentObjects : RegisterAgent(agent))
           /\ UNCHANGED <<wf_vars, a2a_vars, orch_vars, task_vars>>
    \/ (\E agent_id \in AgentIds : UnregisterAgent(agent_id))
           /\ UNCHANGED <<wf_vars, a2a_vars, orch_vars, task_vars>>
    \/ (\E target_protocol \in AgentProtocol : SwitchProtocol(target_protocol))
           /\ UNCHANGED <<wf_vars, a2a_vars, orch_vars, task_vars>>
    \/ GetCurrentCapabilities /\ UNCHANGED <<wf_vars, a2a_vars, orch_vars, task_vars>>

SpecApp == Init /\ [][NextApp]_vars

\* one TravelRecommendationAgent whose budget tool is called repeatedly
NextBudget ==
    \/ (\E budget \in ToolBudgets, preferences \in ToolPreferences :
            OptimizeTravelBudgetAgain(budget, preferences))
           /\ UNCHANGED <<wf_vars, a2a_vars, orch_vars, app_vars, task_vars>>

SpecBudget == Init /\ [][NextBudget]_vars

\* one TravelRecommendationAgent whose observers may fail when notified
NextObservers ==
    \/ (\E ctx \in Contexts : Run(ctx)) /\ UNCHANGED <<a2a_vars, orch_vars, tool_vars, app_vars, task_vars>>
    \/ (\E k \in 1..Len(WorkflowSteps) : EnterPhase(k)) /\ UNCHANGED <<a2a_vars, orch_vars, tool_vars, app_vars, task_vars>>
    \/ StepAnalyzePreferences /\ UNCHANGED <<a2a_vars, orch_vars, tool_vars, app_vars, task_vars>>
    \/ StepSearchDestinations /\ UNCHANGED <<a2a_vars, orch_vars, tool_vars, app_vars, task_vars>>
    \/ StepParallelAnalysis /\ UNCHANGED <<a2a_vars, orch_vars, tool_vars, app_vars, task_vars>>
    \/ StepGenerateRecommendations /\ UNCHANGED <<a2a_vars, orch_vars, tool_vars, app_vars, task_vars>>
    \/ Complete /\ UNCHANGED <<a2a_vars, orch_vars, tool_vars, app_vars, task_vars>>
    \/ HandleException /\ UNCHANGED <<a2a_vars, orch_vars, tool_vars, app_vars, task_vars>>
    \/ (\E k \in 1..Len(WorkflowSteps) : EnterPhaseCallbackFails(k))
           /\ UNCHANGED <<a2a_vars, orch_vars, tool_vars, app_vars, task_vars>>
    \/ CompleteCallbackFails /\ UNCHANGED <<a2a_vars, orch_vars, tool_vars, app_vars, task_vars>>

SpecObservers == Init /\ [][NextObservers]_vars

\* one TravelRecommendationAgent that is run, and whose matching tool is
\* called directly
NextMatching ==
    \/ (\E ctx \in Contexts : Run(ctx)) /\ UNCHANGED <<a2a_vars, orch_vars, tool_vars, app_vars, task_vars>>
    \/ (\E k \in 1..Len(WorkflowSteps) : EnterPhase(k)) /\ UNCHANGED <<a2a_vars, orch_vars, tool_vars, app_vars, task_vars>>
    \/ StepAnalyzePreferences /\ UNCHANGED <<a2a_vars, orch_vars, tool_vars, app_vars, task_vars>>
    \/ StepSearchDestinations /\ UNCHANGED <<a2a_vars, orch_vars, tool_vars, app_vars, task_vars>>
    \/ StepParallelAnalysis /\ UNCHANGED <<a2a_vars, orch_vars, tool_vars, app_vars, task_vars>>
    \/ StepGenerateRecommendations /\ UNCHANGED <<a2a_vars, orch_vars, tool_vars, app_vars, task_vars>>
    \/ Complete /\ UNCHANGED <<a2a_vars, orch_vars, tool_vars, app_vars, task_vars>>
    \/ HandleException /\ UNCHANGED <<a2a_vars, orch_vars, tool_vars, app_vars, task_vars>>
    \/ (\E destinations \in MatchLists, preferences \in MatchPreferences :
            MatchDestinations(destinations, preferences))
           /\ UNCHANGED <<wf_vars, a2a_vars, orch_vars, app_vars, task_vars>>

SpecMatching == Init /\ [][NextMatching]_vars

\* one TravelRecommendationAgent and two calls of run() in flight together
NextConcurrent ==
    \/ (\E t \in TaskIds, ctx \in TaskContexts : TaskRun(t, ctx))
           /\ UNCHANGED <<a2a_vars, orch_vars, tool_vars, app_vars>>
    \/ (\E t \in TaskIds : TaskEnterWorkflow(t))
           /\ UNCHANGED <<a2a_vars, orch_vars, tool_vars, app_vars>>
    \/ (\E t \in TaskIds : TaskStep(t))
           /\ UNCHANGED <<a2a_vars, orch_vars, tool_vars, app_vars>>
    \/ (\E t \in TaskIds : TaskStepRaises(t))
           /\ UNCHANGED <<a2a_vars, orch_vars, tool_vars, app_vars>>
    \/ (\E t \in TaskIds : TaskReturn(t))
           /\ UNCHANGED <<a2a_vars, orch_vars, tool_vars, app_vars>>

SpecConcurrent == Init /\ [][NextConcurrent]_vars

\* one Memory, of any size up to 2 and enabled or not, and the calls of its
\* store
NextMemory ==
    \/ (\E enabled \in BOOLEAN, max_size \in 0..2 : NewMemory(enabled, max_size))
           /\ UNCHANGED <<a2a_vars, orch_vars, app_vars, task_vars>>
    \/ (\E entry \in MemoryEntries : StoreEntry(entry))
           /\ UNCHANGED <<a2a_vars, orch_vars, app_vars, task_vars>>

SpecMemory == Init /\ [][NextMemory]_vars

\* one TravelMultiAgentOrchestrator whose session store is called directly
NextSessions ==
    \/ (\E user_request \in UserRequests : CreateSession(user_request))
           /\ UNCHANGED <<wf_own, a2a_own, app_vars, task_vars>>
    \/ (\E session_id \in CloseSessionIds : CloseSession(session_id))
           /\ UNCHANGED <<wf_own, a2a_vars, app_vars, task_vars>>

SpecSessions == InitSpecOrchestrator /\ [][NextSessions]_vars

-----------------------------------------------------------------------------
(* Properties of the workflow engine *)

\* the states the current run has entered, in order: the new_state of its
\* on_state_change events
StateTrace ==
    LET changes == SelectSeq(events, LAMBDA e : e.name = "on_state_change")
    IN [i \in 1..Len(changes) |-> changes[i].data.new_state]

IsPrefix(p, q) == Len(p) <= Len(q) /\ \A i \in 1..Len(p) : p[i] = q[i]

ResultKeys == {"destinations", "preferences", "analysis", "recommendations"}

\* C5. Workflow success: a run in which no phase raised ends with
\* travel_state = COMPLETED and returns a dict with exactly the keys
\* destinations, preferences, analysis and recommendations.
C5_SuccessCompleted ==
    (wf_pc = Ended /\ run_outcome.kind /= "raised")
        => /\ run_outcome.kind = "returned"
           /\ travel_state = "completed"
           /\ DOMAIN run_outcome.value = ResultKeys

C5_Witness ==
    /\ wf_pc = Ended
    /\ run_outcome.kind = "returned"
    /\ Len(run_outcome.value["recommendations"]) = 3

\* C6. Workflow failure: an exception raised by a phase is caught by run, which
\* sets travel_state to ERROR, emits on_state_change and then on_error carrying
\* that error, and re-raises it; a run that ended by a failure has
\* travel_state = ERROR, never an intermediate state.
C6_FailureToError ==
    /\ [](   (wf_pc = Ended /\ run_outcome.kind = "raised")
          => /\ travel_state = "error"
             /\ Len(events) >= 2
             /\ events[Len(events)] = Event("on_error", [error |-> run_outcome.error])
             /\ events[Len(events) - 1].name = "on_state_change"
             /\ events[Len(events) - 1].data.new_state = "error")
    /\ [][   wf_pc.at = "failed"
          => /\ wf_pc' = Ended
             /\ travel_state' = "error"
             /\ run_outcome' = Raised(wf_pc.error) ]_vars

C6_Witness ==
    /\ wf_pc = Ended
    /\ run_outcome = Raised("itinerary_planner")
    /\ travel_state = "error"

\* C7. Forward-only transitions: within one run, every change of travel_state
\* goes to a state declared later in TravelState (ERROR is declared last);
\* travel_state always holds exactly one state of the enum.
C7_ForwardOnly ==
    /\ [](travel_state \in TravelState)
    /\ [][   (runs_started' = runs_started /\ travel_state' /= travel_state)
          => Rank(travel_state') > Rank(travel_state) ]_vars

C7_Witness ==
    /\ runs_started = 2
    /\ travel_state = "error"
    /\ StateTrace = <<"initialized", "analyzing_preferences", "searching_destinations",
                      "matching_preferences", "error">>

\* the states a successful run enters
SuccessfulTrace ==
    << "initialized", "analyzing_preferences", "searching_destinations",
       "matching_preferences", "finalizing_recommendations", "completed" >>

\* C8 as stated. Complete state chain: a successful run enters every state of
\* the declared chain, each transition going to the immediate successor.
C8_Original_FullChain ==
    (wf_pc = Ended /\ run_outcome.kind = "returned") => StateTrace = TravelStateChain

\* C8 as amended. A successful run enters INITIALIZED, ANALYZING_PREFERENCES,
\* SEARCHING_DESTINATIONS, MATCHING_PREFERENCES, FINALIZING_RECOMMENDATIONS and
\* COMPLETED, in this order and no other state: OPTIMIZING_BUDGET and
\* GENERATING_ITINERARY are never entered, by any run.
C8_SuccessfulChain ==
    /\ (wf_pc = Ended /\ run_outcome.kind = "returned") => StateTrace = SuccessfulTrace
    /\ travel_state \notin {"optimizing_budget", "generating_itinerary"}

C8_Witness ==
    /\ wf_pc = Ended
    /\ run_outcome.kind = "returned"
    /\ StateTrace = SuccessfulTrace

\* the phase states the current run has entered, in order
PhaseTrace ==
    SelectSeq(StateTrace, LAMBDA st : st \in {PhaseState(WorkflowSteps[k]) : k \in 1..4})

\* C9. Phase ordering and join: the phases start in the order preference
\* analysis, destination search, parallel analysis, recommendation assembly;
\* when a phase starts the results of all phases before it are in `results` and
\* no later one is; when recommendation assembly has started, the analysis
\* holds the results of all three sub-analyses.
C9_PhaseOrderAndJoin ==
    /\ IsPrefix(PhaseTrace, [k \in 1..4 |-> PhaseState(WorkflowSteps[k])])
    /\ \A k \in 1..4 :
         (wf_pc = In(k) /\ Len(PhaseTrace) = k)
            => /\ DOMAIN results = {ResultKey(WorkflowSteps[j]) : j \in 1..(k - 1)}
               /\ travel_state = PhaseState(WorkflowSteps[k])
    /\ (Len(PhaseTrace) = 4)
            => /\ "analysis" \in DOMAIN results
               /\ DOMAIN results["analysis"] = {AnalysisKeys[i] : i \in 1..3}
               /\ results["analysis"] = IntegratedAnalysis(ParallelAgentRun(
                      [budget |-> Get(context, "budget", 1000000)]))
               /\ sub_failed = {}
    /\ \A k \in 1..4 : wf_pc = In(k) => Len(PhaseTrace) = k

C9_Witness ==
    /\ wf_pc = In(4)
    /\ PhaseTrace = [k \in 1..4 |-> PhaseState(WorkflowSteps[k])]

\* C10 as stated. Partial-failure resilience: when exactly one of the three
\* sub-analyses failed, the run still ends COMPLETED and returns
\* recommendations, the analysis holding the empty default for the failed
\* sub-analysis and the results of the other two.
C10_PartialFailureResilience ==
    (wf_pc = Ended /\ Cardinality(sub_failed) = 1)
        => /\ travel_state = "completed"
           /\ run_outcome.kind = "returned"
           /\ "recommendations" \in DOMAIN run_outcome.value
           /\ \A i \in 1..3 :
                run_outcome.value["analysis"][AnalysisKeys[i]] =
                    IF ParallelSubAgents[i] \in sub_failed
                    THEN EmptyDict
                    ELSE ParallelAgentRun([budget |-> Get(context, "budget", 1000000)])[i]

-----------------------------------------------------------------------------
(* Properties of the A2A dispatcher *)

\* the last call was made with no token, or with one that verify_token refuses
TokenMissingOrInvalid(request) ==
    \/ ~request.auth_token.present
    \/ ~verify_token(request.auth_token.token)

\* C1 as stated. Auth gate: on an auth-enabled agent, a request for the skill
\* marked authentication_required whose token is missing or refused by
\* verify_token is answered with the authentication failure, and neither
\* _handle_recommendations_a2a nor _stream_recommendations is invoked.
C1_AuthGate ==
    (   /\ a2a_calls > 0
        /\ auth_enabled
        /\ a2a_call.request.skill_id \in DOMAIN Skills
        /\ Skills[a2a_call.request.skill_id].authentication_required
        /\ TokenMissingOrInvalid(a2a_call.request))
    => /\ a2a_call.response = AuthenticationFailed
       /\ a2a_call.handler = "none"

\* C2 as stated. Dispatcher session lifecycle: once a call of
\* handle_a2a_request has returned its result (a success, an unsupported-skill
\* result or an internal failure), the session id it used is not in
\* active_sessions.
C2_NoSessionLeak ==
    (   /\ a2a_calls > 0
        /\ a2a_call.registered
        /\ a2a_call.response.kind = "response")
    => a2a_call.session_id \notin DOMAIN active_sessions

\* the positions of the final notifications in a sequence of notifications
FinalPositions(emitted) == {i \in 1..Len(emitted) : emitted[i].is_final}

\* C4. Streaming termination: a finished stream has emitted exactly one
\* notification with is_final = true, the last one; while a stream is running
\* no notification emitted so far is final unless it is the last of the stream.
C4_StreamingTermination ==
    \A g \in StreamIds :
        LET emitted == streams[g].emitted
        IN /\ FinalPositions(emitted) \subseteq {StreamLength}
           /\ Len(emitted) <= StreamLength
           /\ (streams[g].status = "exhausted" \/ Len(emitted) = StreamLength)
                 => FinalPositions(emitted) = {Len(emitted)}

C4_Witness ==
    \E g \in StreamIds :
        /\ streams[g].status = "exhausted"
        /\ Len(streams[g].emitted) = 4
        /\ streams[g].emitted[4].is_final
        /\ streams[g].emitted[3].chunk_data.progress = 99

-----------------------------------------------------------------------------
(* Properties of the orchestrator *)

\* C3. Orchestrator session closure: when a call of process_travel_request has
\* ended, by returning the success dict, by returning the failure dict or by
\* an exception, the session it created is not in active_sessions; a call that
\* is still running has its session there; when no call is running
\* active_sessions is empty.
C3_SessionClosure ==
    /\ \A c \in CallIds :
          /\ orch_calls[c].pc = "done"
                => orch_calls[c].session_id \notin DOMAIN orch_sessions
          /\ orch_calls[c].pc \in {"workflow", "integrate", "except"}
                => orch_calls[c].session_id \in DOMAIN orch_sessions
    /\ (\A c \in CallIds : orch_calls[c].pc \in {"idle", "done"})
          => DOMAIN orch_sessions = {}

C3_Witness ==
    /\ DOMAIN orch_sessions = {}
    /\ \E c, d \in CallIds :
          /\ orch_calls[c].pc = "done"
          /\ orch_calls[c].outcome.kind = "returned"
          /\ orch_calls[c].outcome.value.success
          /\ orch_calls[d].pc = "done"
          /\ orch_calls[d].outcome.kind = "returned"
          /\ ~orch_calls[d].outcome.value.success
          /\ orch_calls[d].outcome.value.error = "agent"

-----------------------------------------------------------------------------
(* Properties of the tools and steps called directly *)

\* C11. Top-N bound: the list _step_generate_recommendations returns for a
\* destination list has min(3, number of destinations) entries, so never more
\* than 3 and never more than there are destinations, and its i-th entry is
\* built from the i-th destination of the list.
C11_TopNBound ==
    tool_call.tool = "_step_generate_recommendations"
        => LET destinations == Get(tool_call.args.workflow_results, "destinations", <<>>)
               recommendations == tool_call.result
           IN /\ Len(recommendations) = Min(3, Len(destinations))
              /\ Len(recommendations) <= 3
              /\ Len(recommendations) <= Len(destinations)
              /\ \A i \in 1..Len(recommendations) :
                    /\ recommendations[i].destination =
                           Get(destinations[i], "name", "al su eomneun mokjeokji")
                    /\ recommendations[i].id[3] = i

C11_Witness ==
    /\ tool_call.tool = "_step_generate_recommendations"
    /\ Len(Get(tool_call.args.workflow_results, "destinations", <<>>)) = 4
    /\ Len(tool_call.result) = 3
    /\ tool_call.result[1].destination = "al su eomneun mokjeokji"
    /\ tool_call.result[3].destination = "Jeju"

\* the sum of the five category allocations of a budget-optimization output
\* is within 5 of its total_budget
AllocationSum(output) ==
    LET a == output.allocation
    IN a.accommodation + a.transportation + a.food + a.activities + a.shopping

BudgetConserved(output) == Abs(AllocationSum(output) - output.total_budget) <= 5

\* the part of C12 about the tool: every output of _optimize_travel_budget,
\* for every budget and every combination of the food and luxury flags,
\* conserves the budget
BudgetToolConserves ==
    tool_call.tool = "_optimize_travel_budget" => BudgetConserved(tool_call.result)

\* C12 as stated. Budget conservation: every budget-optimization output, the
\* one _optimize_travel_budget returns and the analysis.budget_optimization of
\* a workflow result, has category allocations that sum to its total_budget
\* within 5.
C12_BudgetConservation ==
    /\ BudgetToolConserves
    /\ (wf_pc = Ended /\ run_outcome.kind = "returned")
          => BudgetConserved(run_outcome.value["analysis"]["budget_optimization"])

\* a run with budget 800000 has returned an analysis whose allocations sum to
\* 1000000
C12_Witness ==
    /\ wf_pc = Ended
    /\ run_outcome.kind = "returned"
    /\ Get(context, "budget", 0) = 800000
    /\ run_outcome.value["analysis"]["budget_optimization"].total_budget = 800000
    /\ AllocationSum(run_outcome.value["analysis"]["budget_optimization"]) = 1000000

\* the part of C13 about recommendations: every match_score a run has placed
\* in a recommendation lies in 0.0 .. 1.0
RecommendationScoresInRange ==
    (wf_pc = Ended /\ run_outcome.kind = "returned")
        => \A i \in 1..Len(run_outcome.value["recommendations"]) :
              run_outcome.value["recommendations"][i].match_score \in 0..1000

\* C13 as stated. Score bounds: for every destination (any category, any
\* popularity) and every preference set, _calculate_match_score returns a
\* value in 0.0 .. 1.0 (0 .. 1000 thousandths), and so is every match_score
\* placed in a recommendation.
C13_ScoreBounds ==
    /\ tool_call.tool = "_calculate_match_score" => tool_call.result \in 0..1000
    /\ RecommendationScoresInRange

\* _calculate_match_score has returned -0.1 for a destination of popularity -30.0
C13_Witness ==
    /\ tool_call.tool = "_calculate_match_score"
    /\ Get(tool_call.args.destination, "popularity", 50) = -300
    /\ tool_call.result = -100

-----------------------------------------------------------------------------
(* Determinism of the workflow engine *)

\* C14. Determinism: two runs of one agent on the same context return the
\* same recommendations: the same destinations, match scores and confidence
\* values in the same order (every field but generated_at, the time of the
\* run).
C14_Determinism ==
    \A r1, r2 \in run_results :
        r1.context = r2.context => r1.recommendations = r2.recommendations

\* two runs on the same context have both returned three recommendations
C14_Witness ==
    /\ wf_pc = Ended
    /\ run_outcome.kind = "returned"
    /\ workflow_executions = 2
    /\ recommendations_count = 6
    /\ Cardinality(run_results) = 1
    /\ "user_input" \in DOMAIN context

-----------------------------------------------------------------------------
(* Properties of the A2A dispatcher: failures *)

\* the last call asked for a skill that is no supported skill
UnknownSkillCalled == a2a_calls > 0 /\ a2a_call.request.skill_id \notin DOMAIN Skills

\* the answer to an unknown skill: a result, success = false, the error
\* 'Unsupported skill: <skill_id>', and no skill handler invoked
UnsupportedSkillAnswer ==
    /\ a2a_call.response.kind = "response"
    /\ ~a2a_call.response.success
    /\ a2a_call.response.error = "Unsupported skill: " \o a2a_call.request.skill_id
    /\ a2a_call.handler = "none"

HandlerFaulted ==
    /\ a2a_calls > 0
    /\ a2a_call.handler = "_handle_recommendations_a2a"
    /\ ~a2a_call.request.has_input_data

\* the part of C16 that holds: the fault does not leave handle_a2a_request,
\* which returns success = false with str(e) as the error
FaultContained ==
    HandlerFaulted
        => /\ a2a_call.response.kind = "response"
           /\ ~a2a_call.response.success
           /\ a2a_call.response.error = "AttributeError"
           /\ a2a_call.response.session_id = a2a_call.request.session_id

\* C16 as stated. Internal fault containment: when the skill handler of a
\* non-streaming request fails with an internal fault, handle_a2a_request does
\* not raise, returns success = false with the fault message as the error, and
\* the session of that request is closed: it is no longer in active_sessions.
C16_FaultContainment ==
    /\ FaultContained
    /\ HandlerFaulted => a2a_call.session_id \notin DOMAIN active_sessions

\* the fault was answered and the session of the request is still stored
C16_Witness ==
    /\ HandlerFaulted
    /\ ~a2a_call.response.success
    /\ a2a_call.session_id = ClientSessionId
    /\ ClientSessionId \in DOMAIN active_sessions

-----------------------------------------------------------------------------
(* Properties of the workflow engine: the failure the caller sees *)

\* C17 as stated. Typed workflow failure: a failure of a step or phase reaches
\* the caller of run as a WorkflowExecutionFailed failure carrying the partial
\* state reached, not as the exception the step raised.
C17_TypedWorkflowFailure ==
    (wf_pc = Ended /\ run_outcome.kind = "raised")
        => /\ run_outcome.error = "WorkflowExecutionFailed"
           /\ "partial_state" \in DOMAIN run_outcome

\* run has re-raised the TypeError of _analyze_user_preferences as it was
C17_Witness ==
    /\ wf_pc = Ended
    /\ travel_state = "error"
    /\ run_outcome = Raised("TypeError")
    /\ DOMAIN results = {}

-----------------------------------------------------------------------------
(* Properties of the A2A dispatcher: the session table *)

\* C18 as stated. Session reuse: a call of handle_a2a_request whose session id
\* is already in active_sessions keeps the entry (its start time is
\* preserved) and increments the request counter of that session; an entry is
\* created only for an id that was absent.
C18_SessionReuse ==
    [][ (a2a_calls' = a2a_calls + 1 /\ a2a_call'.registered)
          => LET sid == a2a_call'.session_id
             IN IF sid \in DOMAIN active_sessions
                THEN /\ active_sessions'[sid].start_time = active_sessions[sid].start_time
                     /\ "request_count" \in DOMAIN active_sessions'[sid]
                     /\ "request_count" \in DOMAIN active_sessions[sid]
                     /\ active_sessions'[sid]["request_count"] =
                            active_sessions[sid]["request_count"] + 1
                ELSE DOMAIN active_sessions' = DOMAIN active_sessions \cup {sid} ]_vars

\* two calls used the session id of the client; the entry holds the start time
\* and the skill of the second
C18_Witness ==
    /\ a2a_calls = 2
    /\ requests_handled = 2
    /\ DOMAIN active_sessions = {ClientSessionId}
    /\ active_sessions[ClientSessionId] = [start_time |-> 2, skill_id |-> "agent_status_inquiry"]
    /\ a2a_call.request.skill_id = "agent_status_inquiry"

\* the streams whose generator has not finished: the requests in flight
StreamsInFlight == {g \in StreamIds : streams[g].status \in {"created", "running"}}

\* the calls of process_travel_request in flight
OrchCallsInFlight == {c \in CallIds : orch_calls[c].pc \notin {"idle", "done"}}

\* the part of C19 about create_a2a_session: the calls in flight own distinct
\* session ids, each a uuid drawn for that call alone
OrchestratorSingleOwner ==
    /\ \A c, d \in OrchCallsInFlight :
          c /= d => orch_calls[c].session_id /= orch_calls[d].session_id
    /\ \A c \in OrchCallsInFlight :
          /\ orch_calls[c].session_id[1] = "uuid4"
          /\ orch_calls[c].session_id[2] <= uuids_issued

\* C19 as stated. Single owner of a session id: a session id is owned by at
\* most one request in flight (handle_a2a_request) or one call in flight
\* (create_a2a_session), and an id that one session has used is never given
\* to another session: a call never stores a new session under an id that is
\* already in active_sessions.
C19_SingleOwner ==
    /\ [](\A g, h \in StreamsInFlight :
              (g /= h /\ streams[g].request.session_id /= NoSessionId)
                 => streams[g].request.session_id /= streams[h].request.session_id)
    /\ []OrchestratorSingleOwner
    /\ [][ (a2a_calls' = a2a_calls + 1 /\ a2a_call'.registered
             /\ a2a_call'.session_id \in DOMAIN active_sessions)
             => active_sessions'[a2a_call'.session_id]
                   = active_sessions[a2a_call'.session_id] ]_vars

\* two streaming requests with the session id of the client are in flight
C19_Witness ==
    /\ StreamsInFlight = StreamIds
    /\ \A g \in StreamIds :
          /\ streams[g].request.session_id = ClientSessionId
          /\ streams[g].status = "running"
    /\ Len(streams["g1"].emitted) = 2
    /\ Len(streams["g2"].emitted) = 1

\* a step of the dispatcher leaves the stored entry of every session id other
\* than `own` as it was
OtherEntriesKept(own) ==
    \A sid \in (DOMAIN active_sessions) \ own :
        /\ sid \in DOMAIN active_sessions'
        /\ active_sessions'[sid] = active_sessions[sid]

\* the call just made has stored the entry of its own request under its own id
OwnEntryStored ==
    a2a_call.registered =>
        /\ a2a_call.session_id \in DOMAIN active_sessions
        /\ active_sessions[a2a_call.session_id]
              = [start_time |-> clock, skill_id |-> a2a_call.request.skill_id]

\* the response of the call just made, for a request that names its session,
\* carries that session id and, for the recommendation skill, the result built
\* from it
OwnResponse ==
    (a2a_call.registered /\ a2a_call.request.session_id /= NoSessionId
       /\ a2a_call.response.kind = "response")
      => /\ a2a_call.session_id = a2a_call.request.session_id
         /\ a2a_call.response.session_id = a2a_call.request.session_id
         /\ (a2a_call.handler = "_handle_recommendations_a2a" /\ a2a_call.response.success)
              => \A i \in 1..2 :
                    a2a_call.response.output_data.recommendations[i].id
                        = <<"rec", a2a_call.request.session_id, i>>

\* every notification a stream has yielded carries the session id of the
\* request of that stream, and the notifications come in the order of the stream
OwnNotifications ==
    \A g \in StreamIds :
        \A i \in 1..Len(streams[g].emitted) :
            /\ streams[g].emitted[i].session_id = streams[g].request.session_id
            /\ streams[g].emitted[i].is_final = (i = StreamLength)
            /\ streams[g].emitted[i].chunk_data.type
                  = (IF i = StreamLength THEN "result" ELSE "progress")

\* C20. Non-interference of sessions: under every interleaving of the calls
\* of handle_a2a_request and of the steps of the streams they return, a call
\* stores the entry (skill_id, start time) of its own request under its own
\* session id and changes the entry of no other session id, a step of a stream
\* changes no entry, and each response and each notification of a request that
\* names its session carries the session id and the result of that request.
C20_NonInterference ==
    /\ [](OwnEntryStored /\ OwnResponse /\ OwnNotifications)
    /\ [][ IF a2a_calls' = a2a_calls + 1 /\ a2a_call'.registered
           THEN OtherEntriesKept({a2a_call'.session_id})
           ELSE active_sessions' = active_sessions ]_vars

\* two streams of sessions with distinct ids are in flight, their steps
\* interleaved, and each session is in the store
C20_Witness ==
    /\ streams["g1"].request.session_id = ClientSessionId
    /\ streams["g2"].request.session_id = OtherSessionId
    /\ streams["g1"].status = "running" /\ Len(streams["g1"].emitted) = 2
    /\ streams["g2"].status = "running" /\ Len(streams["g2"].emitted) = 3
    /\ DOMAIN active_sessions = {ClientSessionId, OtherSessionId}
    /\ active_sessions[ClientSessionId].start_time = 1
    /\ active_sessions[OtherSessionId].start_time = 2

-----------------------------------------------------------------------------
(* Properties of the session store called directly *)

\* C21. Closing an unknown session: _close_a2a_session of a session id that is
\* not in the store fails with UnknownSessionError, so a second close of an id
\* fails; closing a session that is in the store removes its entry.
C21_CloseUnknownFails ==
    tool_call.tool = "_close_a2a_session"
      => /\ tool_call.args.session_id \notin DOMAIN orch_sessions
         /\ ~tool_call.args.known => tool_call.result = Raised("UnknownSessionError")

\* a session was created and closed, and the second close of its id returned
\* None
C21_Witness ==
    /\ tool_call = ToolCall("_close_a2a_session",
                            [session_id |-> Uuid4(1), known |-> FALSE], Returned(None))
    /\ Event("session_ended", [session_id |-> Uuid4(1)])
          \in {bus_events[i] : i \in 1..Len(bus_events)}
    /\ Uuid4(1) \notin DOMAIN orch_sessions

-----------------------------------------------------------------------------
(* Cancellation *)

\* the part of C22 about the session: a call of process_travel_request that
\* was cancelled and has ended has left no session of its own in the store
CancelledCallReleasesSession ==
    \A c \in CallIds :
        (orch_calls[c].pc = "done" /\ orch_calls[c].outcome.kind = "raised")
            => orch_calls[c].session_id \notin DOMAIN orch_sessions

\* C22. Cancellation: a run that was cancelled while the workflow was
\* suspended in a phase has travel_state = ERROR, never the state of an
\* intermediate phase, and a cancelled call has released its session.
C22_Cancellation ==
    /\ (wf_pc = Ended /\ run_outcome = Raised("CancelledError"))
          => travel_state = "error"
    /\ CancelledCallReleasesSession

\* a run was cancelled while the parallel phase was awaited and has ended in
\* the state of that phase
C22_Witness ==
    /\ wf_pc = Ended
    /\ run_outcome = Raised("CancelledError")
    /\ travel_state = "matching_preferences"
    /\ DOMAIN results = {"preferences", "destinations"}

-----------------------------------------------------------------------------
(* Streams that fail *)

\* the progress percentages of the notifications that report one, in order
ProgressOf(emitted) ==
    LET reporting == SelectSeq(emitted, LAMBDA chunk : chunk.chunk_data.type = "progress")
    IN [i \in 1..Len(reporting) |-> reporting[i].chunk_data.progress]

\* the percentages of every stream never decrease
ProgressMonotone ==
    \A g \in StreamIds :
        LET progress == ProgressOf(streams[g].emitted)
        IN \A i \in 1..Len(progress) : \A j \in i..Len(progress) : progress[i] <= progress[j]

\* C23. Streaming progress and failure: the progress percentages of the
\* successive notifications of a stream never decrease, and a stream that has
\* failed part-way has emitted a final notification, its last one, which
\* carries an error payload.
C23_ProgressAndFailure ==
    /\ ProgressMonotone
    /\ \A g \in StreamIds :
          streams[g].status = "failed"
            => LET emitted == streams[g].emitted
               IN /\ emitted /= <<>>
                  /\ emitted[Len(emitted)].is_final
                  /\ emitted[Len(emitted)].chunk_data.type = "error"

\* a stream has failed after two progress notifications, none of them final
C23_Witness ==
    \E g \in StreamIds :
        /\ streams[g].status = "failed"
        /\ ProgressOf(streams[g].emitted) = <<33, 66>>
        /\ FinalPositions(streams[g].emitted) = {}

-----------------------------------------------------------------------------
(* Scenarios *)

\* a run has returned for a request that prefers nature with budget 800000
\* (the destination list of the search step holds Jeju: nature, popularity 9.5)
Scenario1Returned ==
    /\ wf_pc = Ended
    /\ run_outcome.kind = "returned"
    /\ run_outcome.value["preferences"].nature
    /\ Get(context, "budget", 0) = 800000
    /\ \E i \in 1..Len(run_outcome.value["destinations"]) :
          /\ run_outcome.value["destinations"][i].category = "nature"
          /\ run_outcome.value["destinations"][i].popularity = 95

\* the score tool itself gives at least 0.99 for the destination of scenario 1
Scenario1ToolScore ==
    (/\ tool_call.tool = "_calculate_match_score"
     /\ Get(tool_call.args.preferences, "nature", FALSE)
     /\ tool_call.args.destination.category = "nature"
     /\ Get(tool_call.args.destination, "popularity", 50) = 95)
       => tool_call.result >= 990

\* C24. Scenario 1: with preferences {nature: true}, budget 800000 and a
\* destination list holding a nature destination of popularity 9.5, the top
\* recommendation the workflow returns is that destination and its match_score
\* is at least 0.99.
C24_Scenario1 ==
    Scenario1Returned
      => LET top == run_outcome.value["recommendations"][1]
         IN /\ top.destination = "Jeju"
            /\ top.match_score >= 990

\* the run of scenario 1 has returned Jeju first, with match_score 0.9
C24_Witness ==
    /\ Scenario1Returned
    /\ run_outcome.value["recommendations"][1].destination = "Jeju"
    /\ run_outcome.value["recommendations"][1].match_score = 900

-----------------------------------------------------------------------------
(* Authentication round trip *)

\* C25. Token round trip: a request made with the token authenticate_client
\* of the agent issued is never answered with the authentication failure,
\* whether the agent is auth-enabled or not, and a request made with a token
\* that does not start with "mock_token_" is answered with the authentication
\* failure by an auth-enabled agent.
C25_TokenRoundTrip ==
    a2a_calls > 0
      => /\ (tool_call.tool = "authenticate_client"
              /\ a2a_call.request.auth_token = tool_call.result)
                => /\ a2a_call.response /= AuthenticationFailed
                   /\ a2a_call.registered
         /\ (auth_enabled /\ a2a_call.request.auth_token.present
              /\ a2a_call.request.auth_token.token[1] /= "mock_token_")
                => /\ a2a_call.response = AuthenticationFailed
                   /\ ~a2a_call.registered

\* the token issued by an auth-enabled agent was presented with a
\* recommendation request, which that agent answered with its recommendations
C25_Witness ==
    /\ auth_enabled
    /\ tool_call = ToolCall("authenticate_client", [credentials |-> [user |-> "test"]],
                            AuthToken(MockToken))
    /\ a2a_call.request.auth_token = tool_call.result
    /\ a2a_call.handler = "_handle_recommendations_a2a"
    /\ a2a_call.response.success

-----------------------------------------------------------------------------
(* Properties of AgentRegistry and HybridAgent *)

\* C26. Agent registry: register_agent adds the agent and returns True
\* exactly when its agent_id is not yet registered, and otherwise returns
\* False and leaves the registry as it was; unregister_agent removes the agent
\* and returns True exactly when the id is registered; the registry always
\* holds one entry for each id whose last successful operation was a register,
\* and none for any other id.
C26_AgentRegistry ==
    /\ [](/\ DOMAIN agents = {agent_id \in AgentIds : last_success[agent_id] = "register_agent"}
          /\ \A agent_id \in DOMAIN agents : agents[agent_id].agent_id = agent_id)
    /\ [][ /\ tool_call'.tool = "register_agent"
              => LET agent == tool_call'.args.agent
                     fresh == agent.agent_id \notin DOMAIN agents
                 IN /\ tool_call'.result = fresh
                    /\ agents' = IF fresh THEN Put(agents, agent.agent_id, agent) ELSE agents
           /\ tool_call'.tool = "unregister_agent"
              => LET agent_id == tool_call'.args.agent_id
                     registered == agent_id \in DOMAIN agents
                 IN /\ tool_call'.result = registered
                    /\ agent_id \notin DOMAIN agents'
                    /\ \A other \in (DOMAIN agents) \ {agent_id} :
                          other \in DOMAIN agents' /\ agents'[other] = agents[other] ]_vars

\* a second agent with the id of a registered one was refused, and the
\* registry still holds the first
C26_Witness ==
    /\ tool_call = ToolCall("register_agent",
                            [agent |-> [agent_id |-> "agent-1", name |-> "another agent",
                                        protocol |-> "hybrid"]], FALSE)
    /\ DOMAIN agents = {"agent-1"}
    /\ agents["agent-1"].name = "hybrid agent"
    /\ last_success["agent-2"] = "unregister_agent"

\* C27. Hybrid protocol switch: switch_protocol(t) returns True and sets
\* active_protocol to t exactly when t is A2A or ADK; for HYBRID it returns
\* False and leaves active_protocol as it was; active_protocol is always A2A
\* or ADK; get_current_capabilities returns the capabilities of the agent
\* followed by those of the active protocol.
C27_ProtocolSwitch ==
    /\ [](active_protocol \in {"a2a", "adk"})
    /\ [](tool_call.tool = "get_current_capabilities"
            => tool_call.result
                 = HybridCapabilities
                   \o (IF active_protocol = "a2a"
                       THEN <<"message_routing", "peer_communication">>
                       ELSE <<"llm_processing", "google_cloud_integration">>))
    /\ [][ tool_call'.tool = "switch_protocol"
             => LET t == tool_call'.args.target_protocol
                IN IF t \in {"a2a", "adk"}
                   THEN tool_call'.result = TRUE /\ active_protocol' = t
                   ELSE tool_call'.result = FALSE /\ active_protocol' = active_protocol ]_vars

\* after a switch to ADK, a switch to HYBRID was refused and ADK is still
\* the active protocol
C27_Witness ==
    /\ tool_call = ToolCall("switch_protocol", [target_protocol |-> "hybrid"], FALSE)
    /\ active_protocol = "adk"

-----------------------------------------------------------------------------
(* Properties of the tools and steps called directly: the values computed *)

\* the preference_matching sub-result handed to the last direct call of
\* _step_generate_recommendations
MatchingOfCall ==
    Get(Get(tool_call.args.workflow_results, "analysis", EmptyDict),
        "preference_matching", EmptyDict)

\* the recommendation at 0-based position i carries the i-th entry of
\* `scores`, and 0.8 where `scores` has no such entry
ScoresByPosition(scores) ==
    \A j \in 1..Len(tool_call.result) :
        tool_call.result[j].match_score = (IF j <= Len(scores) THEN scores[j] ELSE 800)

\* C28 as stated. Match score by position: match_score is the entry of the
\* scores list of the matching step at the position of the recommendation,
\* and 0.8 at every position for which the matching step produced no entry;
\* a matching sub-result that is empty or has no scores list produced none.
C28_Original_ScoreByPosition ==
    tool_call.tool = "_step_generate_recommendations"
        => ScoresByPosition(Get(MatchingOfCall, "scores", <<>>))

\* C28, amended. As above where the matching sub-result has a scores list;
\* where it has none, the scores are those of the list 0.8, 0.7, 0.6.
C28_ScoreByPositionOrDefaultList ==
    tool_call.tool = "_step_generate_recommendations"
        => ScoresByPosition(Get(MatchingOfCall, "scores", <<800, 700, 600>>))

\* three recommendations were built from an analysis without matching
\* sub-result: their scores are 0.8, 0.7 and 0.6
C28_Witness ==
    /\ tool_call.tool = "_step_generate_recommendations"
    /\ MatchingOfCall = EmptyDict
    /\ Len(tool_call.result) = 3
    /\ tool_call.result[1].match_score = 800
    /\ tool_call.result[2].match_score = 700
    /\ tool_call.result[3].match_score = 600

\* the category flags of the preferences
CategoryFlags == {"nature", "culture", "food"}

\* the query of no category: "ingi yeohaengji"
GenericQuery == <<"ingi yeohaengji">>

\* C29. Search query default: _build_search_query returns the generic
\* popular-destination query exactly when no category flag (nature, culture,
\* food) is set in the preferences; when one is set, the query is not the
\* generic one and holds the label of every set category that has one, nature
\* before culture.
C29_SearchQueryDefault ==
    tool_call.tool = "_build_search_query"
        => LET preferences == tool_call.args.preferences
               flagged == {flag \in CategoryFlags : Get(preferences, flag, FALSE)}
               labels == (IF "nature" \in flagged THEN <<"jayeon gyeonggwan">> ELSE <<>>)
                         \o (IF "culture" \in flagged THEN <<"munhwa gwangwang">> ELSE <<>>)
           IN /\ (tool_call.result = GenericQuery) <=> (flagged = {})
              /\ flagged /= {} => SubSeq(tool_call.result, 1, Len(labels)) = labels

\* the query built for preferences whose only category flag is food is the
\* generic one
C29_Witness ==
    /\ tool_call.tool = "_build_search_query"
    /\ tool_call.args.preferences = [nature |-> FALSE, culture |-> FALSE, food |-> TRUE]
    /\ tool_call.result = GenericQuery

\* the shares the budget rules give for the flags food and luxury, in percent
RuleShares(food, luxury) ==
    [ accommodation |-> IF luxury THEN 45 ELSE 35,
      transportation |-> 25,
      food |-> IF food THEN 30 ELSE 25,
      activities |-> IF luxury THEN 0 ELSE 10,
      shopping |-> IF food THEN 0 ELSE 5 ]

\* C30. Budget split rules: _optimize_travel_budget uses the shares 35, 25,
\* 25, 10 and 5 percent, the food flag moving 5 points from shopping to food
\* and the luxury flag 10 points from activities to accommodation; the shares
\* sum to 100 and none is negative; every allocation of a non-negative budget
\* is non-negative and is the whole part of its share of the budget (one less
\* at most, by the rounding of the product); a call uses the shares of its
\* own flags whatever the flags of the call before it were.
C30_BudgetSplitRules ==
    tool_call.tool = "_optimize_travel_budget"
        => LET preferences == tool_call.args.preferences
               budget == tool_call.args.budget
               shares == RuleShares(Get(preferences, "food", FALSE),
                                    Get(preferences, "luxury", FALSE))
               allocation == tool_call.result.allocation
           IN /\ DOMAIN allocation = DOMAIN shares
              /\ shares.accommodation + shares.transportation + shares.food
                    + shares.activities + shares.shopping = 100
              /\ \A k \in DOMAIN shares : shares[k] >= 0
              /\ \A k \in DOMAIN shares :
                    LET exact == (Abs(budget) * shares[k]) \div 100
                    IN /\ Abs(allocation[k]) \in {exact, exact - 1}
                       /\ budget >= 0 => allocation[k] >= 0
                       /\ budget <= 0 => allocation[k] <= 0

\* a call without flags that follows a call with both flags has split 800000
\* by the shares 35, 25, 25, 10 and 5
C30_Witness ==
    /\ tool_call.tool = "_optimize_travel_budget"
    /\ tool_call.args.budget = 800000
    /\ tool_call.args.preferences = [food |-> FALSE, luxury |-> FALSE]
    /\ tool_call.args.earlier = {[food |-> TRUE, luxury |-> TRUE]}
    /\ tool_call.result.allocation =
          [ accommodation |-> 280000, transportation |-> 200000, food |-> 200000,
            activities |-> 80000, shopping |-> 40000 ]

-----------------------------------------------------------------------------
(* Properties of the workflow engine: what a run owns *)

\* C31. Preferences are write-once: within a run the preferences are written
\* by the preference-analysis phase only, every later step leaves them as they
\* are, and the preferences of the returned result are those the analysis of
\* the user input of the run gives.
C31_PreferencesWriteOnce ==
    /\ [][ (runs_started' = runs_started /\ "preferences" \in DOMAIN results)
             => /\ "preferences" \in DOMAIN results'
                /\ results'["preferences"] = results["preferences"] ]_vars
    /\ [][ ("preferences" \notin DOMAIN results /\ "preferences" \in DOMAIN results')
             => wf_pc = In(1) ]_vars
    /\ []((wf_pc = Ended /\ run_outcome.kind = "returned")
            => /\ "preferences" \in DOMAIN run_outcome.value
               /\ run_outcome.value["preferences"]
                     = _analyze_user_preferences(Get(context, "user_input", EmptyText)))

\* a run on the text about food, luxury and culture has returned, after its
\* three later phases, the preferences analysed from that text
C31_Witness ==
    /\ wf_pc = Ended
    /\ run_outcome.kind = "returned"
    /\ Get(context, "user_input", EmptyText) = TextFoodLuxuryCulture
    /\ run_outcome.value["preferences"].food
    /\ run_outcome.value["preferences"].luxury
    /\ ~run_outcome.value["preferences"].nature
    /\ Len(run_outcome.value["recommendations"]) = 3

\* C32. Observer independence: the final state and the result of a run do
\* not depend on its observers: no run ends by the exception of a callback
\* that failed when notified, and within a run COMPLETED is never followed by
\* ERROR.
C32_ObserverIndependence ==
    /\ [](run_outcome.kind = "raised"
            => run_outcome.error \notin {"on_state_change", "on_workflow_complete"})
    /\ [][ (runs_started' = runs_started /\ travel_state = "completed")
             => travel_state' /= "error" ]_vars

\* every phase of a run succeeded and the run reached COMPLETED; its
\* on_workflow_complete callback raised, and the run ended in ERROR with the
\* exception of the callback
C32_Witness ==
    /\ wf_pc = Ended
    /\ run_outcome = Raised("on_workflow_complete")
    /\ travel_state = "error"
    /\ DOMAIN results = ResultKeys
    /\ events[Len(events) - 1].data = StateChange("completed", "error")

-----------------------------------------------------------------------------
(* Session lifecycle notifications *)

\* the number of events `name` the event bus was given for session_id
Notified(name, session_id) ==
    Cardinality({i \in 1..Len(bus_events) :
                    bus_events[i] = Event(name, [session_id |-> session_id])})

\* C33. Session lifecycle notifications: every session created by
\* create_a2a_session has exactly one session_started; it has no session_ended
\* while it is in the store and exactly one once it is closed, emitted after
\* its session_started; no session_ended names an id that was never in the
\* store.
C33_SessionLifecycle ==
    \A session_id \in CloseSessionIds :
       /\ Notified("session_started", session_id) <= 1
       /\ session_id \in DOMAIN orch_sessions
             => /\ Notified("session_started", session_id) = 1
                /\ Notified("session_ended", session_id) = 0
       /\ (session_id \notin DOMAIN orch_sessions
              /\ Notified("session_started", session_id) = 1)
             => Notified("session_ended", session_id) = 1
       /\ \A i \in 1..Len(bus_events) :
              bus_events[i] = Event("session_ended", [session_id |-> session_id])
                => \E j \in 1..(i - 1) :
                      bus_events[j] = Event("session_started", [session_id |-> session_id])

\* without the library a session was created and closed: its entry is gone,
\* the close raised AttributeError and the bus was given its session_started
\* only
C33_Witness ==
    /\ ~adk_available
    /\ tool_call = ToolCall("_close_a2a_session",
                            [session_id |-> Uuid4(1), known |-> TRUE],
                            Raised("AttributeError"))
    /\ Uuid4(1) \notin DOMAIN orch_sessions
    /\ bus_events = <<Event("session_started", [session_id |-> Uuid4(1)])>>

-----------------------------------------------------------------------------
(* The session id of a response *)

\* C34. Response carries the effective session id: the response to a request
\* that passed the authentication check carries the id of the session
\* registered for it, its recommendation ids are derived from that id, and
\* every notification of a stream carries the id of the session of its
\* request, which is never the missing id.
C34_EffectiveSessionId ==
    /\ (a2a_call.registered /\ a2a_call.response.kind = "response")
          => /\ a2a_call.response.session_id = a2a_call.session_id
             /\ a2a_call.response.output_data.type = "recommendations"
                   => \A i \in 1..Len(a2a_call.response.output_data.recommendations) :
                         a2a_call.response.output_data.recommendations[i].id
                            = <<"rec", a2a_call.session_id, i>>
    /\ \A g \in StreamIds : \A i \in 1..Len(streams[g].emitted) :
          /\ streams[g].emitted[i].session_id /= NoSessionId
          /\ streams[g].request.session_id /= NoSessionId
                => streams[g].emitted[i].session_id = streams[g].request.session_id

\* a recommendation request without session_id was registered under a
\* generated id, and its response and its recommendation ids carry None
C34_Witness ==
    /\ a2a_call.registered
    /\ a2a_call.request.session_id = NoSessionId
    /\ a2a_call.session_id = Uuid4(1)
    /\ Uuid4(1) \in DOMAIN active_sessions
    /\ a2a_call.handler = "_handle_recommendations_a2a"
    /\ a2a_call.response.success
    /\ a2a_call.response.session_id = NoSessionId
    /\ a2a_call.response.output_data.recommendations[1].id = <<"rec", NoSessionId, 1>>

-----------------------------------------------------------------------------
(* Rejected requests *)

\* C35. Rejected requests have no effect: a call of handle_a2a_request that is
\* answered with the authentication failure leaves active_sessions and
\* requests_handled unchanged; every other call adds one to requests_handled,
\* no other step changes it, so that it counts the requests that passed the
\* authentication check; active_sessions never has more entries than
\* requests_handled.
C35_RejectedNoEffect ==
    /\ [][ IF a2a_calls' = a2a_calls + 1
           THEN IF AuthRejects(a2a_call'.request)
                THEN /\ a2a_call'.response = AuthenticationFailed
                     /\ active_sessions' = active_sessions
                     /\ requests_handled' = requests_handled
                ELSE /\ a2a_call'.response /= AuthenticationFailed
                     /\ requests_handled' = requests_handled + 1
           ELSE /\ active_sessions' = active_sessions
                /\ requests_handled' = requests_handled ]_vars
    /\ [](/\ requests_handled <= a2a_calls
          /\ Cardinality(DOMAIN active_sessions) <= requests_handled)

\* a request was handled and registered; the next one, with a forged token,
\* was answered with the authentication failure, and the statistics are those
\* of the first
C35_Witness ==
    /\ auth_enabled
    /\ a2a_calls = 2
    /\ a2a_call.request.auth_token = AuthToken(ForgedToken)
    /\ a2a_call.response = AuthenticationFailed
    /\ requests_handled = 1
    /\ Cardinality(DOMAIN active_sessions) = 1

-----------------------------------------------------------------------------
(* Scores and their destinations *)

\* the matches _match_destinations returned are those of its destinations, in
\* non-increasing order of match_score, ties in the order of the input, and
\* scores[i] is the score of matches[i]
MatchesOrdered ==
    tool_call.tool = "_match_destinations"
      => LET destinations == tool_call.args.destinations
             matches == tool_call.result.matches
             scores == tool_call.result.scores
             InputIndex(d) == CHOOSE i \in 1..Len(destinations) : destinations[i] = d
         IN /\ Len(matches) = Len(destinations)
            /\ Len(scores) = Len(matches)
            /\ {matches[i].destination : i \in 1..Len(matches)}
                  = {destinations[i] : i \in 1..Len(destinations)}
            /\ \A i \in 1..Len(matches) :
                  /\ scores[i] = matches[i].match_score
                  /\ matches[i].match_score
                        = _calculate_match_score(matches[i].destination,
                                                 tool_call.args.preferences)
            /\ \A i, j \in 1..Len(matches) :
                  i < j => \/ matches[i].match_score > matches[j].match_score
                           \/ /\ matches[i].match_score = matches[j].match_score
                              /\ InputIndex(matches[i].destination)
                                    < InputIndex(matches[j].destination)

\* C36. Score belongs to its destination: _match_destinations returns matches
\* in non-increasing match_score order with ties in input order and scores[i]
\* the score of matches[i]; in the result of a workflow run the match_score of
\* recommendation i is what _calculate_match_score gives for destination i
\* and the preferences of the run.
C36_ScoreOfDestination ==
    /\ MatchesOrdered
    /\ (wf_pc = Ended /\ run_outcome.kind = "returned")
          => \A i \in 1..Len(run_outcome.value["recommendations"]) :
                run_outcome.value["recommendations"][i].match_score
                   = _calculate_match_score(run_outcome.value["destinations"][i],
                                            run_outcome.value["preferences"])

\* a run for a nature trip has returned: its first recommendation is Jeju with
\* the score 0.9 of the mock analysis, where _calculate_match_score gives 0.99
C36_Witness ==
    /\ wf_pc = Ended
    /\ run_outcome.kind = "returned"
    /\ run_outcome.value["preferences"].nature
    /\ run_outcome.value["recommendations"][1].destination = "Jeju"
    /\ run_outcome.value["recommendations"][1].match_score = 900
    /\ _calculate_match_score(run_outcome.value["destinations"][1],
                              run_outcome.value["preferences"]) = 990

\* _match_destinations was given Busan before Seoul, of one score, and Jeju
\* last: Jeju is first and Busan stays before Seoul
C36_TiesWitness ==
    /\ tool_call.tool = "_match_destinations"
    /\ tool_call.args.preferences = EmptyDict
    /\ Len(tool_call.result.matches) = 3
    /\ tool_call.result.matches[1].destination.name = "Jeju"
    /\ tool_call.result.matches[2].destination.name = "Busan"
    /\ tool_call.result.matches[3].destination.name = "Seoul"
    /\ tool_call.result.scores = <<690, 674, 674>>
    /\ tool_call.args.destinations[3].name = "Jeju"

-----------------------------------------------------------------------------
(* Calls of run() in flight together *)

\* what a run of its own on a fresh agent returns for ctx, as its caller
\* compares it
OwnRunResult(ctx) ==
    LET preferences == _analyze_user_preferences(Get(ctx, "user_input", EmptyText))
        destinations == _process_search_results
        analysis == IntegratedAnalysis(ParallelAgentRun(
                        [ destinations |-> destinations, preferences |-> preferences,
                          budget |-> Get(ctx, "budget", 1000000) ]))
        workflow_results == [ preferences |-> preferences, destinations |-> destinations,
                              analysis |-> analysis ]
    IN RunResult(ctx, [ recommendations |-> Recommendations(ctx, workflow_results, 0) ])

\* C37. Concurrent runs on one agent: each of two interleaved runs returns
\* the result for its own context, and in the step in which a run returns
\* successfully travel_state is COMPLETED.
C37_ConcurrentRuns ==
    /\ [](\A t \in TaskIds :
            tasks[t].outcome.kind = "returned"
              => RunResult(tasks[t].context, tasks[t].outcome.value)
                    = OwnRunResult(tasks[t].context))
    /\ [][ \A t \in TaskIds :
             (tasks[t].pc /= Ended /\ tasks'[t].pc = Ended
                /\ tasks'[t].outcome.kind = "returned")
               => travel_state' = "completed" ]_vars

\* the first task has returned its recommendations while the second one,
\* begun later, is searching destinations: travel_state is the state of
\* the second
C37_Witness ==
    /\ tasks["t1"].pc = Ended
    /\ tasks["t1"].outcome.kind = "returned"
    /\ Len(tasks["t1"].outcome.value["recommendations"]) = 3
    /\ tasks["t2"].pc = In(2)
    /\ travel_state = "searching_destinations"
    /\ tasks["t1"].events[Len(tasks["t1"].events)].name = "on_workflow_complete"

-----------------------------------------------------------------------------
(* Memory *)

\* C38. Bounded memory: after any sequence of Memory.store calls the memory
\* holds at most max_size entries; they are the most recent entries stored,
\* in the order they were stored; a disabled memory holds nothing.
C38_BoundedMemory ==
    tool_call.tool \in {"Memory", "Memory.store"}
      => LET stored == tool_call.args.stored
             kept == IF Len(stored) < tool_call.args.max_size
                     THEN Len(stored) ELSE tool_call.args.max_size
         IN /\ Len(memory_data) <= tool_call.args.max_size
            /\ tool_call.args.enabled
                  => memory_data = SubSeq(stored, Len(stored) - kept + 1, Len(stored))
            /\ ~tool_call.args.enabled => memory_data = <<>>

\* a memory of size 2 was handed three entries, the first other than the
\* second: it holds the second and the third
C38_Witness ==
    /\ tool_call.tool = "Memory.store"
    /\ tool_call.args.enabled
    /\ tool_call.args.max_size = 2
    /\ Len(tool_call.args.stored) = 3
    /\ tool_call.args.stored[1] /= tool_call.args.stored[2]
    /\ tool_call.args.stored[2] /= tool_call.args.stored[3]
    /\ memory_data = <<tool_call.args.stored[2], tool_call.args.stored[3]>>

====
